---- MODULE Spec2Model ----
(***************************************************************************)
(* A model of the go-raytracer: the parallel render loop of the camera     *)
(* (internal/camera/camera.go), and the scene's intersection search and    *)
(* recursive tracing (internal/scene) over the primitives of               *)
(* pkg/raytracing/object.                                                  *)
(***************************************************************************)
EXTENDS Integers, Sequences, FiniteSets, TLC

\* ------------------------------------------------------------------------
\* Bounds of the model
\* ------------------------------------------------------------------------
MaxWidth == 2
MaxHeight == 1
MaxThreads == 2
MaxCoord == 2
MaxObjects == 3
MaxMaterials == 2
MaxDepth == 3
MaxFactor == 2

\* ------------------------------------------------------------------------
\* State
\* ------------------------------------------------------------------------
VARIABLES
    imageWidth,     \* Camera.imageWidth
    imageHeight,    \* Camera.imageHeight
    antiAliasingFactor, \* *Camera.AntiAliasingFactor
    output,         \* Camera.output: isNil, or Pix: pixel -> number of Set calls
    threads,        \* Render's thread budget
    renderPc,       \* where Render's own goroutine stands
    pixelX,         \* Render's inner loop counter
    pixelY,         \* Render's outer loop counter
    wg,             \* the sync.WaitGroup counter
    sema,           \* number of tokens buffered in the semaphore channel
    workers,        \* the renderRays goroutines, in dispatch order
    scene,          \* the scene.Scene: Materials, Objects, Lights, ambientLight
    sceneState,     \* "loaded", then Initialize's outcome: "ready" or "error"
    trace,          \* a TraceRay call: its pending invocation and what it observed
    probe,          \* a single call of a function and its result
    run             \* the program: main, walkPath and renderScene

renderVars == <<antiAliasingFactor, imageWidth, imageHeight, output, threads, renderPc, pixelX,
                pixelY, wg, sema, workers>>

sceneVars == <<scene, sceneState, trace, probe, run>>

vars == <<renderVars, sceneVars>>

\* ------------------------------------------------------------------------
\* float64 arithmetic, exact: a number is <<n, d>> with d >= 0 and gcd(n, d) = 1.
\* d > 0 is the rational n/d; <<1, 0>> is +Inf, <<-1, 0>> is -Inf, <<0, 0>> NaN.
\* The inputs of the model are chosen so that every result the code computes
\* is exactly representable here (every square root is of a perfect square).
\* ------------------------------------------------------------------------
\* The value of a one-element set: The({e : x \in {a}}) is e with x standing
\* for the value of a, computed once.
The(S) == CHOOSE x \in S : TRUE

RECURSIVE Gcd(_, _)
Gcd(a, b) == IF b = 0 THEN a ELSE Gcd(b, a % b)

AbsInt(n) == IF n < 0 THEN -n ELSE n

SignInt(n) == IF n < 0 THEN -1 ELSE IF n > 0 THEN 1 ELSE 0

\* The number n/d in lowest terms, the sign carried by the numerator.
Norm(n, d) ==
    IF d = 0 THEN <<SignInt(n), 0>>
    ELSE The({<<SignInt(d) * (n \div g), AbsInt(d) \div g>> :
                 g \in {Gcd(AbsInt(n), AbsInt(d))}})

Rat(n) == <<n, 1>>
NaN == <<0, 0>>
PosInf == <<1, 0>>
NegInf == <<-1, 0>>
IsNaN(a) == a = NaN
IsFinite(a) == a[2] > 0

RNeg(a) == The({<<-x[1], x[2]>> : x \in {a}})
RAdd(a, b) ==
    The({IF x[2] = 0 /\ y[2] = 0
         THEN (IF x = y THEN x ELSE NaN)
         ELSE Norm(x[1] * y[2] + y[1] * x[2], x[2] * y[2]) :
            x \in {a}, y \in {b}})
RSub(a, b) == RAdd(a, RNeg(b))
RMul(a, b) == The({Norm(x[1] * y[1], x[2] * y[2]) : x \in {a}, y \in {b}})
RDiv(a, b) == The({Norm(x[1] * y[2], x[2] * y[1]) : x \in {a}, y \in {b}})
RAbs(a) == The({<<AbsInt(x[1]), x[2]>> : x \in {a}})

\* x < y for positive finite x and y, without forming the larger product.
PosLt(x, y) ==
    IF x[2] >= y[2]
    THEN x[2] > (x[1] * y[2]) \div y[1]
    ELSE y[2] <= (y[1] * x[2] - 1) \div x[1]

\* The float comparison a < b: false when either is NaN.
RLt(a, b) ==
    \E x \in {a}, y \in {b} :
        IF IsNaN(x) \/ IsNaN(y) THEN FALSE
        ELSE IF x[2] = 0 \/ y[2] = 0
        THEN (IF x[2] = 0 /\ y[2] = 0 THEN x[1] < y[1]
              ELSE IF x[2] = 0 THEN x[1] < 0 ELSE y[1] > 0)
        ELSE IF x[1] <= 0 \/ y[1] <= 0
        THEN (IF x[1] < 0 /\ y[1] < 0 THEN PosLt(RNeg(y), RNeg(x)) ELSE x[1] < y[1])
        ELSE PosLt(x, y)
RGt(a, b) == RLt(b, a)
RLe(a, b) == \E x \in {a}, y \in {b} : ~IsNaN(x) /\ ~IsNaN(y) /\ ~RLt(y, x)

\* math.Min and math.Max with their special cases, in the order Go tests them.
MathMin(x, y) ==
    The({IF a = NegInf \/ b = NegInf THEN NegInf
         ELSE IF IsNaN(a) \/ IsNaN(b) THEN NaN
         ELSE IF RLt(a, b) THEN a ELSE b :
            a \in {x}, b \in {y}})
MathMax(x, y) ==
    The({IF a = PosInf \/ b = PosInf THEN PosInf
         ELSE IF IsNaN(a) \/ IsNaN(b) THEN NaN
         ELSE IF RGt(a, b) THEN a ELSE b :
            a \in {x}, b \in {y}})

\* The integer square root, rounded down.
ISqrt(n) == CHOOSE k \in 0 .. n : k * k <= n /\ (k + 1) * (k + 1) > n

\* math.Sqrt: NaN of a negative number or NaN, exact on the squares of rationals.
MathSqrt(a) ==
    The({IF IsNaN(x) \/ x[1] < 0 THEN NaN
         ELSE IF x[2] = 0 THEN PosInf
         ELSE Norm(ISqrt(x[1] * x[2]), x[2]) :
            x \in {a}})

\* Whether MathSqrt(a) is exact.
SqrtExact(a) ==
    \E x \in {a} :
        IF IsNaN(x) \/ x[1] < 0 \/ x[2] = 0 THEN TRUE
        ELSE \E k \in {ISqrt(x[1] * x[2])} : k * k = x[1] * x[2]

\* ------------------------------------------------------------------------
\* Camera: SetImageSize, Render, renderRays
\* ------------------------------------------------------------------------

\* The values of the scene variables while only the camera is looked at.
NoColor == [Red |-> <<0, 1>>, Green |-> <<0, 1>>, Blue |-> <<0, 1>>]
NoScene == [Materials |-> <<>>, Objects |-> <<>>, Lights |-> <<>>, ambientLight |-> NoColor]
NoTrace == [pc |-> "none"]
NoProbe == [op |-> "none"]
NoRun == [pc |-> "none"]

\* image.NewRGBA(image.Rect(0, 0, w, h)): every pixel present, none yet Set.
NewRGBA(w, h) ==
    [isNil |-> FALSE, Pix |-> [p \in (0 .. w - 1) \X (0 .. h - 1) |-> 0]]

\* The zero value of Camera.output: no image.
NilImage == [isNil |-> TRUE, Pix |-> <<>>]

\* The goroutines that exist: started by Render and not yet returned.
Live == {i \in 1 .. Len(workers) : workers[i].pc # "done"}

\* Goroutines that have sent on the semaphore and not yet received from it.
Holding == {i \in 1 .. Len(workers) : workers[i].pc \in {"trace", "release"}}

CanSendNoGate == TRUE

CanSendOneSlot == sema < threads + 1

\* A send on a buffered channel proceeds iff the buffer has room.  With a
\* capacity of 0 a send needs a receiver ready at the same moment; the only
\* receive is the one a worker makes after its own send, so none ever is.
CanSend == sema < threads

\* The state after the configuration was read: SetImageSize either created
\* the pixel buffer or failed (or was never called) and left it nil.
RenderInit ==
    /\ antiAliasingFactor = 1
    /\ imageWidth \in 0 .. MaxWidth
    /\ imageHeight \in 0 .. MaxHeight
    /\ threads \in 0 .. MaxThreads
    /\ output \in {NilImage, NewRGBA(imageWidth, imageHeight)}
    /\ renderPc = "start"
    /\ pixelX = 0
    /\ pixelY = 0
    /\ wg = 0
    /\ sema = 0
    /\ workers = <<>>
    /\ scene = NoScene
    /\ sceneState = "loaded"
    /\ trace = NoTrace
    /\ run = NoRun
    /\ probe = NoProbe

OutputUnsetNever == FALSE

\* Render's first test: c.output == nil.
OutputUnset == output.isNil

\* Render, up to the first loop test: the nil check and make(semaphore, threads).
RenderBegin ==
    /\ renderPc = "start"
    /\ renderPc' = IF OutputUnset THEN "returnedErr" ELSE "loop"
    /\ UNCHANGED <<antiAliasingFactor, imageWidth, imageHeight, output, threads, pixelX, pixelY,
                   wg, sema, workers>>
    /\ UNCHANGED sceneVars

\* One pass of the outer loop's test with the inner loop exhausted or not
\* entered: the loops over pixelY and pixelX, without a body.
LoopDone == pixelY >= imageHeight

ScreenYFromBottom(y) == RSub(RMul(Rat(2), y), Rat(1))

\* screenY := -2.0*(pixelY) + 1.0, of the inner (float64) pixelY.
ScreenY(y) == RAdd(RMul(Rat(-2), y), Rat(1))

\* screenX := 2.0*(pixelX) - 1.0, of the inner (float64) pixelX.
ScreenX(x) == RSub(RMul(Rat(2), x), Rat(1))

\* antiAliasingIncrement := 1.0 / float64(*c.AntiAliasingFactor).
AntiAliasingIncrement == RDiv(Rat(1), Rat(antiAliasingFactor))

\* The body of the loops over i and j: the inner pixelX and pixelY are
\* declared from the loop counters px, py, and the screen coordinates handed
\* to generateLightRay are computed from them.
Sample(px, py, i, j) ==
    The({[screenX |-> ScreenX(x), screenY |-> ScreenY(y)] :
         x \in {RDiv(RAdd(Rat(px), RMul(Rat(i), AntiAliasingIncrement)), Rat(imageWidth))},
         y \in {RDiv(RAdd(Rat(py), RMul(Rat(j), AntiAliasingIncrement)), Rat(imageHeight))}})

\* The slice rays after the loops over i (outer) and j (inner), one entry per
\* append, each ray standing for the coordinates it was generated from.
Rays(px, py) ==
    [k \in 1 .. antiAliasingFactor * antiAliasingFactor |->
        Sample(px, py, (k - 1) \div antiAliasingFactor, (k - 1) % antiAliasingFactor)]

\* One iteration of the inner loop body: the rays of the pixel, wg.Add(1);
\* go c.renderRays(...).
Dispatch ==
    /\ renderPc = "loop"
    /\ ~LoopDone
    /\ pixelX < imageWidth
    /\ wg' = wg + 1
    /\ workers' = Append(workers, [pixelX |-> pixelX, pixelY |-> pixelY,
                                   rays |-> Rays(pixelX, pixelY), pc |-> "gate"])
    /\ pixelX' = pixelX + 1
    /\ UNCHANGED <<antiAliasingFactor, imageWidth, imageHeight, output, threads, renderPc, pixelY, sema>>
    /\ UNCHANGED sceneVars

\* The inner loop ends: pixelY++ and pixelX starts again at 0.
NextRow ==
    /\ renderPc = "loop"
    /\ ~LoopDone
    /\ pixelX >= imageWidth
    /\ pixelY' = pixelY + 1
    /\ pixelX' = 0
    /\ UNCHANGED <<antiAliasingFactor, imageWidth, imageHeight, output, threads, renderPc, wg, sema, workers>>
    /\ UNCHANGED sceneVars

\* The outer loop ends: Render reaches wg.Wait().
LoopExit ==
    /\ renderPc = "loop"
    /\ LoopDone
    /\ renderPc' = "wait"
    /\ UNCHANGED <<antiAliasingFactor, imageWidth, imageHeight, output, threads, pixelX, pixelY, wg, sema, workers>>
    /\ UNCHANGED sceneVars

WaitReturnsEarly == TRUE

\* wg.Wait() returns once the counter is zero; Render returns nil.
WaitReturns == wg = 0

RenderReturn ==
    /\ renderPc = "wait"
    /\ WaitReturns
    /\ renderPc' = "returnedNil"
    /\ UNCHANGED <<antiAliasingFactor, imageWidth, imageHeight, output, threads, pixelX, pixelY, wg, sema, workers>>
    /\ UNCHANGED sceneVars

AcquireSkipped(i) ==
    /\ workers[i].pc = "gate"
    /\ workers' = [workers EXCEPT ![i].pc = "trace"]
    /\ UNCHANGED <<antiAliasingFactor, imageWidth, imageHeight, output, threads, renderPc,
                   pixelX, pixelY, wg, sema>>
    /\ UNCHANGED sceneVars

\* renderRays: sema <- empty{}.
Acquire(i) ==
    /\ workers[i].pc = "gate"
    /\ CanSend
    /\ sema' = sema + 1
    /\ workers' = [workers EXCEPT ![i].pc = "trace"]
    /\ UNCHANGED <<antiAliasingFactor, imageWidth, imageHeight, output, threads, renderPc, pixelX, pixelY, wg>>
    /\ UNCHANGED sceneVars

TargetPixelFirstColumn(w) == <<0, w.pixelY>>

\* The pixel renderRays writes: its own pixelX, pixelY arguments.
TargetPixel(w) == <<w.pixelX, w.pixelY>>

\* renderRays: trace every ray, average, clamp, c.output.Set(pixelX, pixelY, ...).
\* RGBA.Set ignores a point outside the image's rectangle.
TraceAndSet(i) ==
    /\ workers[i].pc = "trace"
    /\ LET p == TargetPixel(workers[i])
       IN output' = IF p \in DOMAIN output.Pix
                    THEN [output EXCEPT !.Pix[p] = @ + 1]
                    ELSE output
    /\ workers' = [workers EXCEPT ![i].pc = "release"]
    /\ UNCHANGED <<antiAliasingFactor, imageWidth, imageHeight, threads, renderPc, pixelX, pixelY, wg, sema>>
    /\ UNCHANGED sceneVars

ReleaseKeepsToken(i) ==
    /\ workers[i].pc = "release"
    /\ workers' = [workers EXCEPT ![i].pc = "exit"]
    /\ UNCHANGED <<antiAliasingFactor, imageWidth, imageHeight, output, threads, renderPc, pixelX, pixelY, wg, sema>>
    /\ UNCHANGED sceneVars

\* renderRays: <-sema.  The worker's own token is in the buffer, so it never blocks.
Release(i) ==
    /\ workers[i].pc = "release"
    /\ sema > 0
    /\ sema' = sema - 1
    /\ workers' = [workers EXCEPT ![i].pc = "exit"]
    /\ UNCHANGED <<antiAliasingFactor, imageWidth, imageHeight, output, threads, renderPc, pixelX, pixelY, wg>>
    /\ UNCHANGED sceneVars

\* renderRays returns: the deferred wg.Done() runs.
WgDone(i) ==
    /\ workers[i].pc = "exit"
    /\ wg' = wg - 1
    /\ workers' = [workers EXCEPT ![i].pc = "done"]
    /\ UNCHANGED <<antiAliasingFactor, imageWidth, imageHeight, output, threads, renderPc, pixelX, pixelY, sema>>
    /\ UNCHANGED sceneVars

WorkerStep(i) == Acquire(i) \/ TraceAndSet(i) \/ Release(i) \/ WgDone(i)

Next ==
    \/ RenderBegin
    \/ Dispatch
    \/ NextRow
    \/ LoopExit
    \/ RenderReturn
    \/ \E i \in 1 .. Len(workers) : Acquire(i)
    \/ \E i \in 1 .. Len(workers) : TraceAndSet(i)
    \/ \E i \in 1 .. Len(workers) : Release(i)
    \/ \E i \in 1 .. Len(workers) : WgDone(i)

Spec == RenderInit /\ [][Next]_vars

\* A camera as UnmarshalJSON and SetImageSize leave it when both succeed:
\* the anti-aliasing factor is at least one and the pixel buffer exists.
SampleInit ==
    /\ antiAliasingFactor \in 1 .. MaxFactor
    /\ imageWidth \in 1 .. MaxWidth
    /\ imageHeight \in 1 .. MaxHeight
    /\ threads \in 0 .. MaxThreads
    /\ output = NewRGBA(imageWidth, imageHeight)
    /\ renderPc = "start"
    /\ pixelX = 0
    /\ pixelY = 0
    /\ wg = 0
    /\ sema = 0
    /\ workers = <<>>
    /\ scene = NoScene
    /\ sceneState = "loaded"
    /\ trace = NoTrace
    /\ run = NoRun
    /\ probe = NoProbe

SampleSpec == SampleInit /\ [][Next]_vars

\* The Go scheduler runs every runnable goroutine eventually: Render's own
\* goroutine and each worker take their next step if it stays possible.
FairSpec ==
    /\ Spec
    /\ WF_vars(RenderBegin \/ Dispatch \/ NextRow \/ LoopExit \/ RenderReturn)
    /\ \A i \in 1 .. MaxWidth * MaxHeight :
          WF_vars(i <= Len(workers) /\ WorkerStep(i))

\* ------------------------------------------------------------------------
\* raytracing.Vector and raytracing.Ray
\* ------------------------------------------------------------------------
Vec(x, y, z) == [X |-> Rat(x), Y |-> Rat(y), Z |-> Rat(z)]

Dot(v, other) ==
    The({RAdd(RAdd(RMul(a.X, b.X), RMul(a.Y, b.Y)), RMul(a.Z, b.Z)) :
            a \in {v}, b \in {other}})

Cross(v, other) ==
    The({[X |-> RSub(RMul(a.Y, b.Z), RMul(a.Z, b.Y)),
          Y |-> RSub(RMul(a.Z, b.X), RMul(a.X, b.Z)),
          Z |-> RSub(RMul(a.X, b.Y), RMul(a.Y, b.X))] :
            a \in {v}, b \in {other}})

Magnitude(v) == The({MathSqrt(Dot(a, a)) : a \in {v}})

Add(v, other) ==
    The({[X |-> RAdd(a.X, b.X), Y |-> RAdd(a.Y, b.Y), Z |-> RAdd(a.Z, b.Z)] :
            a \in {v}, b \in {other}})

Subtract(v, other) ==
    The({[X |-> RSub(a.X, b.X), Y |-> RSub(a.Y, b.Y), Z |-> RSub(a.Z, b.Z)] :
            a \in {v}, b \in {other}})

Negative(v) == The({[X |-> RNeg(a.X), Y |-> RNeg(a.Y), Z |-> RNeg(a.Z)] : a \in {v}})

Scale(v, scale) ==
    The({[X |-> RMul(a.X, k), Y |-> RMul(a.Y, k), Z |-> RMul(a.Z, k)] :
            a \in {v}, k \in {scale}})

\* math.Cos and math.Sin of an angle given in radians as a rational multiple
\* of math.Pi; the angles used are the quarter turns, where the real values
\* are rational.
CosPi(turns) ==
    CASE turns[1] % (2 * turns[2]) = 0 -> Rat(1)
      [] turns[1] % (2 * turns[2]) = turns[2] -> Rat(-1)
      [] OTHER -> Rat(0)
SinPi(turns) ==
    CASE (2 * turns[1]) % (4 * turns[2]) = turns[2] -> Rat(1)
      [] (2 * turns[1]) % (4 * turns[2]) = 3 * turns[2] -> Rat(-1)
      [] OTHER -> Rat(0)

NormalizeUnchecked(v) ==
    The({[v |-> Scale(a, RDiv(Rat(1), mag)), ok |-> TRUE] :
            a \in {v}, mag \in {Magnitude(v)}})

\* Normalize returns the vector and whether it could be normalized.
Normalize(v) ==
    The({IF RLe(mag, Rat(0))
         THEN [v |-> a, ok |-> FALSE]
         ELSE [v |-> Scale(a, RDiv(Rat(1), mag)), ok |-> TRUE] :
            a \in {v}, mag \in {Magnitude(v)}})

\* Multiply: the matrix, a sequence of three rows, times the column vector.
Multiply(matrix, vector) ==
    The({[X |-> RAdd(RAdd(RMul(m[1][1], v.X), RMul(m[1][2], v.Y)), RMul(m[1][3], v.Z)),
          Y |-> RAdd(RAdd(RMul(m[2][1], v.X), RMul(m[2][2], v.Y)), RMul(m[2][3], v.Z)),
          Z |-> RAdd(RAdd(RMul(m[3][1], v.X), RMul(m[3][2], v.Y)), RMul(m[3][3], v.Z))] :
            m \in {matrix}, v \in {vector}})

\* The rotation matrix of Rotate for the normalized axis and the cosine and
\* sine of the angle.
RotationMatrix(axis, cos, sin) ==
    The({<<<<RAdd(cos, RMul(RMul(axis.X, axis.X), c1)),
             RSub(RMul(RMul(axis.X, axis.Y), c1), RMul(axis.Z, sin)),
             RAdd(RMul(RMul(axis.X, axis.Z), c1), RMul(axis.Y, sin))>>,
           <<RAdd(RMul(RMul(axis.Y, axis.X), c1), RMul(axis.Z, sin)),
             RAdd(cos, RMul(RMul(axis.Y, axis.Y), c1)),
             RSub(RMul(RMul(axis.Y, axis.Z), c1), RMul(axis.X, sin))>>,
           <<RSub(RMul(RMul(axis.Z, axis.X), c1), RMul(axis.Y, sin)),
             RAdd(RMul(RMul(axis.Z, axis.Y), c1), RMul(axis.X, sin)),
             RAdd(cos, RMul(RMul(axis.Z, axis.Z), c1))>>>> :
            c1 \in {RSub(Rat(1), cos)}})

\* v.Rotate(degrees, axis): the rotated vector, or the zero vector and an
\* error when the axis cannot be normalized.
Rotate(v, degrees, axis) ==
    The({IF ~unit.ok THEN [v |-> Vec(0, 0, 0), err |-> "error"]
         ELSE [v |-> Multiply(RotationMatrix(unit.v, CosPi(angle), SinPi(angle)), v),
               err |-> "nil"] :
            unit \in {Normalize(axis)}, angle \in {RDiv(degrees, Rat(180))}})

Ray(position, direction) == [Position |-> position, Direction |-> direction]

\* ------------------------------------------------------------------------
\* object.Object: Sphere, Plane, Box, Triangle
\* ------------------------------------------------------------------------

\* The near bound of a valid hit, 1e-4.
Epsilon == <<1, 10000>>

\* The tolerance under which a ray counts as parallel, 1e-8.
Tolerance == <<1, 100000000>>

\* An intersection result: (bool, float64).
Result(hit, t) == [hit |-> hit, t |-> t]

InRangeNoEpsilon(t, maxRange) == RLt(t, maxRange)

\* The final test of Sphere, Plane and Triangle: t > 1e-4 && t < maxRange.
InRange(t, maxRange) == \E x \in {t} : RGt(x, Epsilon) /\ RLt(x, maxRange)

\* What an Intersect returns when there is no valid hit.
Miss(t, maxRange) == Result(FALSE, maxRange)

sphereFactory(material, center, radius) ==
    [type |-> "sphere", Material |-> material, Center |-> center, Radius |-> radius]

\* The coefficients A and B of the quadratic in t and its discriminant.
SphereQuadratic(s, r) ==
    The({The({[A |-> A, B |-> B,
               discriminant |-> RSub(RMul(B, B), RMul(RMul(Rat(4), A), C))] :
                 A \in {Dot(r.Direction, r.Direction)},
                 B \in {RMul(Rat(2), Dot(r.Direction, dist))},
                 C \in {RSub(Dot(dist, dist), RMul(s.Radius, s.Radius))}}) :
            dist \in {Subtract(r.Position, s.Center)}})

SphereRootLarger(q) ==
    The({MathMax(RDiv(RAdd(RNeg(q.B), sqrtdiscr), RMul(Rat(2), q.A)),
                 RDiv(RSub(RNeg(q.B), sqrtdiscr), RMul(Rat(2), q.A))) :
            sqrtdiscr \in {MathSqrt(q.discriminant)}})

\* The smaller of the roots t0 and t1.
SphereRoot(q) ==
    The({MathMin(RDiv(RAdd(RNeg(q.B), sqrtdiscr), RMul(Rat(2), q.A)),
                 RDiv(RSub(RNeg(q.B), sqrtdiscr), RMul(Rat(2), q.A))) :
            sqrtdiscr \in {MathSqrt(q.discriminant)}})

SphereIntersect(s, r, maxRange) ==
    The({IF RLt(q.discriminant, Rat(0)) THEN Result(FALSE, maxRange)
         ELSE The({IF InRange(t, maxRange) THEN Result(TRUE, t)
                   ELSE Miss(t, maxRange) :
                      t \in {SphereRoot(q)}}) :
            q \in {SphereQuadratic(s, r)}})

SphereSurfaceNormal(s, point) == Normalize(Subtract(point, s.Center)).v

\* planeFactory: unmarshal, then Plane.Normalize.
planeFactory(material, point, normal) ==
    [type |-> "plane", Material |-> material, Point |-> point,
     Normal |-> Normalize(normal).v]

PlaneIntersect(p, r, maxRange) ==
    The({IF RLt(RAbs(denominator), Tolerance) THEN Result(FALSE, maxRange)
         ELSE The({IF InRange(t, maxRange) THEN Result(TRUE, t)
                   ELSE Miss(t, maxRange) :
                      t \in {RDiv(Dot(Subtract(p.Point, r.Position), p.Normal),
                                  denominator)}}) :
            denominator \in {Dot(r.Direction, p.Normal)}})

PlaneSurfaceNormal(p, point) == p.Normal

\* boxFactory: unmarshal, then Box.Initialize, which orders the corners and
\* derives center and extent.
boxFactory(material, minCorner, maxCorner) ==
    LET lo(a, b) == IF RGt(a, b) THEN b ELSE a
        hi(a, b) == IF RGt(a, b) THEN a ELSE b
        mn == [X |-> lo(minCorner.X, maxCorner.X), Y |-> lo(minCorner.Y, maxCorner.Y),
               Z |-> lo(minCorner.Z, maxCorner.Z)]
        mx == [X |-> hi(minCorner.X, maxCorner.X), Y |-> hi(minCorner.Y, maxCorner.Y),
               Z |-> hi(minCorner.Z, maxCorner.Z)]
        center == Scale(Add(mx, mn), <<1, 2>>)
    IN [type |-> "box", Material |-> material, MinCorner |-> mn, MaxCorner |-> mx,
        center |-> center, extent |-> Subtract(mx, center)]

\* The parameters at which the ray crosses the two faces of one axis, the
\* smaller (math.Min) and the larger (math.Max).
BoxSlab(minCorner, maxCorner, position, direction) ==
    The({[near |-> MathMin(t1, t2), far |-> MathMax(t1, t2)] :
            t1 \in {RDiv(RSub(minCorner, position), direction)},
            t2 \in {RDiv(RSub(maxCorner, position), direction)}})

BoxIntersect(b, r, maxRange) ==
    The({The({IF RLt(tMin, tMax) /\ RGt(tMin, Epsilon) /\ RLt(tMin, maxRange)
              THEN Result(TRUE, tMin)
              ELSE Miss(tMin, maxRange) :
                 tMin \in {MathMax(MathMax(x.near, y.near), z.near)},
                 tMax \in {MathMin(MathMin(x.far, y.far), z.far)}}) :
            x \in {BoxSlab(b.MinCorner.X, b.MaxCorner.X, r.Position.X, r.Direction.X)},
            y \in {BoxSlab(b.MinCorner.Y, b.MaxCorner.Y, r.Position.Y, r.Direction.Y)},
            z \in {BoxSlab(b.MinCorner.Z, b.MaxCorner.Z, r.Position.Z, r.Direction.Z)}})

signum(f) == IF RLt(f, Rat(0)) THEN Rat(-1) ELSE Rat(1)

\* The normal of the face nearest to the point: X unless Y is strictly
\* nearer, then Z if it is strictly nearer than both.
BoxNearestFace(relativePoint, dX, dY, dZ) ==
    IF RLt(dZ, IF RLt(dY, dX) THEN dY ELSE dX)
    THEN [X |-> Rat(0), Y |-> Rat(0), Z |-> signum(relativePoint.Z)]
    ELSE IF RLt(dY, dX)
    THEN [X |-> Rat(0), Y |-> signum(relativePoint.Y), Z |-> Rat(0)]
    ELSE [X |-> signum(relativePoint.X), Y |-> Rat(0), Z |-> Rat(0)]

BoxSurfaceNormal(b, point) ==
    The({The({BoxNearestFace(relativePoint, dX, dY, dZ) :
                 dX \in {RAbs(RSub(RAbs(relativePoint.X), b.extent.X))},
                 dY \in {RAbs(RSub(RAbs(relativePoint.Y), b.extent.Y))},
                 dZ \in {RAbs(RSub(RAbs(relativePoint.Z), b.extent.Z))}}) :
            relativePoint \in {Subtract(point, b.center)}})

\* triangleFactory: the edges from A and the unit normal of the face.
triangleFactory(material, a, b, c) ==
    [type |-> "triangle", Material |-> material, A |-> a, B |-> b, C |-> c,
     edge1 |-> Subtract(b, a), edge2 |-> Subtract(c, a),
     normal |-> Normalize(Cross(Subtract(b, a), Subtract(c, a))).v]

\* Triangle.Intersect once the determinant is known not to vanish: the
\* barycentric coordinates u and v, then the ray parameter t.
TriangleInside(tr, r, maxRange, h, f, transform) ==
    The({IF RLt(u, Rat(0)) \/ RGt(u, Rat(1)) THEN Result(FALSE, maxRange)
         ELSE The({IF RLt(v, Rat(0)) \/ RGt(RAdd(u, v), Rat(1))
                   THEN Result(FALSE, maxRange)
                   ELSE The({IF InRange(t, maxRange) THEN Result(TRUE, t)
                             ELSE Miss(t, maxRange) :
                                t \in {RMul(Dot(tr.edge2, q), f)}}) :
                      v \in {RMul(Dot(r.Direction, q), f)}}) :
            u \in {RMul(Dot(transform, h), f)},
            q \in {Cross(transform, tr.edge1)}})

TriangleIntersect(tr, r, maxRange) ==
    The({The({IF RLt(det, Tolerance) /\ RGt(det, RNeg(Tolerance))
              THEN Result(FALSE, maxRange)
              ELSE The({TriangleInside(tr, r, maxRange, h, f, transform) :
                           f \in {RDiv(Rat(1), det)},
                           transform \in {Subtract(r.Position, tr.A)}}) :
                 det \in {Dot(tr.edge1, h)}}) :
            h \in {Cross(r.Direction, tr.edge2)}})

\* Object.Intersect, dispatched on the implementation.
Intersect(obj, r, maxRange) ==
    The({CASE o.type = "sphere" -> SphereIntersect(o, ray, range)
           [] o.type = "plane" -> PlaneIntersect(o, ray, range)
           [] o.type = "box" -> BoxIntersect(o, ray, range)
           [] o.type = "triangle" -> TriangleIntersect(o, ray, range) :
            o \in {obj}, ray \in {r}, range \in {maxRange}})

\* Object.SurfaceNormal for the primitives a scene file can hold.
SurfaceNormal(obj, point) ==
    The({CASE o.type = "sphere" -> SphereSurfaceNormal(o, p)
           [] o.type = "plane" -> PlaneSurfaceNormal(o, p)
           [] o.type = "box" -> BoxSurfaceNormal(o, p) :
            o \in {obj}, p \in {point}})

\* Material.MaterialID.
MaterialID(obj) == obj.Material

\* ------------------------------------------------------------------------
\* scene.Scene: FindIntersection
\* ------------------------------------------------------------------------

\* The range FindIntersection starts from.
FarRange == Rat(20000)

\* The loop of FindIntersection from the object at sequence position i on,
\* with the loop's t and currentObject so far.  Go's index of objects[i] is i - 1.
RECURSIVE FindFrom(_, _, _, _, _)
FindFrom(objects, r, i, t, currentObject) ==
    IF i > Len(objects)
    THEN [hit |-> currentObject # -1, t |-> t, index |-> currentObject]
    ELSE The({FindFrom(objects, r, i + 1, res.t,
                       IF res.hit THEN i - 1 ELSE currentObject) :
                 res \in {Intersect(objects[i], r, t)}})

RECURSIVE FindFromFar(_, _, _, _, _)
FindFromFar(objects, r, i, t, currentObject) ==
    IF i > Len(objects)
    THEN [hit |-> currentObject # -1, t |-> t, index |-> currentObject]
    ELSE The({FindFromFar(objects, r, i + 1, IF res.hit THEN res.t ELSE t,
                          IF res.hit THEN i - 1 ELSE currentObject) :
                 res \in {Intersect(objects[i], r, FarRange)}})

FindIntersectionLastHit(objects, r) == FindFromFar(objects, r, 1, FarRange, -1)

FindIntersection(objects, r) == FindFrom(objects, r, 1, FarRange, -1)

\* ------------------------------------------------------------------------
\* Single calls of Object.Intersect
\* ------------------------------------------------------------------------

\* Ray origins and directions on the integer grid of the plane z = 0, the
\* directions also leaving the plane; the zero direction is among them.
GridPoints == {Vec(x, y, 0) : x \in -MaxCoord .. MaxCoord, y \in -MaxCoord .. MaxCoord}
Directions == {Vec(x, y, z) : x \in -1 .. 1, y \in -1 .. 1, z \in -1 .. 1}
PlanarDirections == {Vec(x, y, 0) : x \in -1 .. 1, y \in -1 .. 1}

\* Primitives as the factories leave them.
Ball == sphereFactory(0, Vec(0, 0, 0), Rat(1))
Globe == sphereFactory(1, Vec(1, 0, 0), Rat(2))
Floor == planeFactory(0, Vec(0, -1, 0), Vec(0, 2, 0))
FloorAgain == planeFactory(1, Vec(1, -1, 0), Vec(0, -1, 0))
Wall == planeFactory(0, Vec(1, 0, 0), Vec(1, 0, 0))
Crate == boxFactory(1, Vec(1, 1, 1), Vec(-1, -1, -1))
Slab == boxFactory(0, Vec(-2, -2, -1), Vec(0, -1, 1))
Facet == triangleFactory(0, Vec(-1, 0, -1), Vec(2, 0, -1), Vec(-1, 0, 2))

ProbeObjects == {Ball, Globe, Floor, Wall, Crate, Slab, Facet}

ProbeRanges == {FarRange, Rat(2), Rat(1), Epsilon, Rat(0)}

\* Whether the sphere's discriminant for this ray has an exact square root.
ExactFor(obj, r) ==
    obj.type = "sphere" => SqrtExact(SphereQuadratic(obj, r).discriminant)

IntersectInit ==
    /\ \E o \in ProbeObjects, p \in GridPoints, d \in Directions, m \in ProbeRanges :
          /\ ExactFor(o, Ray(p, d))
          /\ probe = [op |-> "Intersect", obj |-> o, r |-> Ray(p, d), maxRange |-> m,
                      done |-> FALSE, result |-> Result(FALSE, Rat(0))]
    /\ scene = NoScene
    /\ sceneState = "loaded"
    /\ trace = NoTrace
    /\ run = NoRun
    /\ imageWidth = 0 /\ imageHeight = 0 /\ output = NilImage /\ threads = 0
    /\ antiAliasingFactor = 1
    /\ renderPc = "none" /\ pixelX = 0 /\ pixelY = 0 /\ wg = 0 /\ sema = 0
    /\ workers = <<>>

\* obj.Intersect(r, maxRange)
IntersectCall ==
    /\ probe.op = "Intersect"
    /\ ~probe.done
    /\ probe' = [probe EXCEPT !.done = TRUE,
                              !.result = Intersect(probe.obj, probe.r, probe.maxRange)]
    /\ UNCHANGED <<scene, sceneState, trace, run>>
    /\ UNCHANGED renderVars

IntersectSpec == IntersectInit /\ [][IntersectCall]_vars

\* ------------------------------------------------------------------------
\* Single calls of Scene.FindIntersection
\* ------------------------------------------------------------------------

\* The primitives a scene file can hold; Floor and FloorAgain are one surface.
SceneObjects == {Ball, Floor, FloorAgain, Crate, Slab}

\* The object lists: every ordering of up to MaxObjects distinct primitives.
ObjectLists ==
    UNION {{q \in [1 .. n -> SceneObjects] : \A i, j \in 1 .. n : i # j => q[i] # q[j]} :
              n \in 0 .. MaxObjects}

FindInit ==
    /\ \E q \in ObjectLists, p \in GridPoints, d \in PlanarDirections :
          /\ \A i \in 1 .. Len(q) : ExactFor(q[i], Ray(p, d))
          /\ scene = [NoScene EXCEPT !.Objects = q]
          /\ probe = [op |-> "FindIntersection", r |-> Ray(p, d), done |-> FALSE,
                      result |-> [hit |-> FALSE, t |-> Rat(0), index |-> -1]]
    /\ sceneState = "loaded"
    /\ trace = NoTrace
    /\ run = NoRun
    /\ imageWidth = 0 /\ imageHeight = 0 /\ output = NilImage /\ threads = 0
    /\ antiAliasingFactor = 1
    /\ renderPc = "none" /\ pixelX = 0 /\ pixelY = 0 /\ wg = 0 /\ sema = 0
    /\ workers = <<>>

\* s.FindIntersection(r)
FindCall ==
    /\ probe.op = "FindIntersection"
    /\ ~probe.done
    /\ probe' = [probe EXCEPT !.done = TRUE,
                              !.result = FindIntersection(scene.Objects, probe.r)]
    /\ UNCHANGED <<scene, sceneState, trace, run>>
    /\ UNCHANGED renderVars

FindSpec == FindInit /\ [][FindCall]_vars

\* ------------------------------------------------------------------------
\* scene.Scene: Initialize and TraceRay
\* ------------------------------------------------------------------------
Color(r, g, b) == [Red |-> r, Green |-> g, Blue |-> b]

ValidMaterialOffByOne(materialID, count) == ~(materialID < 0 \/ materialID > count)

\* The test of Initialize on one object's material id, count = len(s.Materials).
ValidMaterial(materialID, count) == ~(materialID < 0 \/ materialID >= count)

\* Whether Initialize returns an error: some object fails the test.
InitializeFails(s) ==
    \E i \in 1 .. Len(s.Objects) :
        ~ValidMaterial(MaterialID(s.Objects[i]), Len(s.Materials))

\* The loop of Initialize over the lights from position i on: the ambient
\* colours added channel by channel to the sum so far.
RECURSIVE SumAmbient(_, _, _)
SumAmbient(lights, i, sum) ==
    IF i > Len(lights) THEN sum
    ELSE The({SumAmbient(lights, i + 1, next) :
                 next \in {Color(RAdd(sum.Red, lights[i].Ambient.Red),
                                 RAdd(sum.Green, lights[i].Ambient.Green),
                                 RAdd(sum.Blue, lights[i].Ambient.Blue))}})

\* The mean ambient colour Initialize derives: each channel's sum over the
\* lights divided by float64(len(s.Lights)), NaN when there is no light.
MeanAmbient(lights) ==
    The({Color(RDiv(sum.Red, n), RDiv(sum.Green, n), RDiv(sum.Blue, n)) :
            sum \in {SumAmbient(lights, 1, NoColor)}, n \in {Rat(Len(lights))}})

\* s.Initialize()
Initialize ==
    /\ sceneState = "loaded"
    /\ IF InitializeFails(scene)
       THEN /\ sceneState' = "error"
            /\ scene' = scene
       ELSE /\ sceneState' = "ready"
            /\ scene' = [scene EXCEPT !.ambientLight = MeanAmbient(scene.Lights)]
    /\ UNCHANGED <<trace, probe, run>>
    /\ UNCHANGED renderVars

ShouldRecurseAtZero(remainingDepth) == remainingDepth >= 0

\* The guard of the recursive call: remainingDepth > 0.
ShouldRecurse(remainingDepth) == remainingDepth > 0

\* The shadow test on FindIntersection's result for the light ray: the light
\* is appended to visibleLights if nothing was hit or distance > 1.0.
LightVisible(intersected, distance) == ~intersected \/ RGt(distance, Rat(1))

\* The light ray of the shadow test: from the hit point, unnormalized.
LightRay(intersection, light) ==
    Ray(intersection, Subtract(light.Position, intersection))

\* The shadow test for every light, in order: what FindIntersection returned
\* for its light ray and whether the light went into visibleLights.
ShadowTest(s, lightRay) ==
    The({[hit |-> found.hit, t |-> found.t,
          visible |-> LightVisible(found.hit, found.t)] :
            found \in {FindIntersection(s.Objects, lightRay)}})

Shadows(s, intersection) ==
    [k \in 1 .. Len(s.Lights) |->
        The({ShadowTest(s, lightRay) :
                lightRay \in {LightRay(intersection, s.Lights[k])}})]

\* The ray TraceRay recurses on: from the hit point, mirrored about the normal
\* and normalized (left as it is when it cannot be).
ReflectedRay(r, intersection, normal) ==
    LET reflect == RMul(Rat(2), Dot(r.Direction, normal))
    IN Ray(intersection, Normalize(Subtract(r.Direction, Scale(normal, reflect))).v)

\* Channel-wise colour arithmetic of the lighting code.
AddColor(a, b) ==
    The({Color(RAdd(x.Red, y.Red), RAdd(x.Green, y.Green), RAdd(x.Blue, y.Blue)) :
            x \in {a}, y \in {b}})

\* coef * light colour * material colour, channel by channel.
Shade(coef, lightColor, materialColor) ==
    The({Color(RMul(RMul(c, l.Red), m.Red), RMul(RMul(c, l.Green), m.Green),
               RMul(RMul(c, l.Blue), m.Blue)) :
            c \in {coef}, l \in {lightColor}, m \in {materialColor}})

\* A colour times a float64, channel by channel.
ScaleColor(c, k) ==
    The({Color(RMul(x.Red, y), RMul(x.Green, y), RMul(x.Blue, y)) :
            x \in {c}, y \in {k}})

\* math.Pow(x, y) for an exponent that is a natural number: Pow(x, 0) is 1.
RECURSIVE MathPow(_, _)
MathPow(x, y) == IF y = 0 THEN Rat(1) ELSE The({RMul(a, MathPow(a, y - 1)) : a \in {x}})

\* One light of LambertianReflectance: skipped when it is not in front of the
\* surface or its direction cannot be normalized, else its diffusion is added.
LambertianLight(light, position, normal, material, color) ==
    The({IF RLe(Dot(normal, dist), Rat(0)) THEN color
         ELSE The({IF ~lightVec.ok THEN color
                   ELSE AddColor(color, Shade(Dot(lightVec.v, normal),
                                              light.Diffuse, material.Diffuse)) :
                      lightVec \in {Normalize(dist)}}) :
            dist \in {Subtract(light.Position, position)}})

\* The loop of LambertianReflectance from light i on.
RECURSIVE LambertianFrom(_, _, _, _, _, _)
LambertianFrom(lights, i, position, normal, material, color) ==
    IF i > Len(lights) THEN color
    ELSE The({LambertianFrom(lights, i + 1, position, normal, material, next) :
                 next \in {LambertianLight(lights[i], position, normal, material, color)}})

LambertianReflectance(lights, position, normal, material) ==
    LambertianFrom(lights, 1, position, normal, material, NoColor)

\* The diffuse and specular terms of one light of PhongReflectance, for its
\* normalized direction and normalized mirror direction.
PhongTerms(light, viewer, normal, material, lightVec, reflectedLight) ==
    The({AddColor(Shade(diffCoef, light.Diffuse, material.Diffuse),
                  Shade(IF RLe(specBase, Rat(0)) THEN Rat(0)
                        ELSE MathPow(specBase, material.Alpha),
                        light.Specular, material.Specular)) :
            diffCoef \in {MathMax(Rat(0), Dot(lightVec, normal))},
            specBase \in {MathMax(Rat(0), Dot(reflectedLight, viewer))}})

\* One light of PhongReflectance, its direction already normalized: skipped
\* when the mirror direction cannot be normalized.
PhongLit(light, viewer, normal, material, color, lightVec) ==
    The({IF ~reflectedLight.ok THEN color
         ELSE AddColor(color, PhongTerms(light, viewer, normal, material,
                                         lightVec, reflectedLight.v)) :
            reflectedLight \in
                {Normalize(Subtract(Scale(normal, RMul(Rat(2), Dot(lightVec, normal))),
                                    lightVec))}})

\* One light of PhongReflectance, with the same two skips as the Lambertian loop.
PhongLight(light, viewer, position, normal, material, color) ==
    The({IF RLe(Dot(normal, dist), Rat(0)) THEN color
         ELSE The({IF ~lightVec.ok THEN color
                   ELSE PhongLit(light, viewer, normal, material, color, lightVec.v) :
                      lightVec \in {Normalize(dist)}}) :
            dist \in {Subtract(light.Position, position)}})

\* The loop of PhongReflectance from light i on.
RECURSIVE PhongFrom(_, _, _, _, _, _, _)
PhongFrom(lights, i, viewer, position, normal, material, color) ==
    IF i > Len(lights) THEN color
    ELSE The({PhongFrom(lights, i + 1, viewer, position, normal, material, next) :
                 next \in {PhongLight(lights[i], viewer, position, normal, material, color)}})

\* ambientLight * material.Ambient, channel by channel.
AmbientProduct(ambientLight, material) ==
    The({Color(RMul(a.Red, m.Red), RMul(a.Green, m.Green), RMul(a.Blue, m.Blue)) :
            a \in {ambientLight}, m \in {material.Ambient}})

AmbientTermPerLight(lights, ambientLight, material, color) ==
    AddColor(color, ScaleColor(AmbientProduct(ambientLight, material), Rat(Len(lights))))

\* What PhongReflectance adds to the colour after its loop over the lights.
AmbientTerm(lights, ambientLight, material, color) ==
    AddColor(color, AmbientProduct(ambientLight, material))

PhongReflectance(lights, ambientLight, viewer, position, normal, material) ==
    The({AmbientTerm(lights, ambientLight, material, color) :
            color \in {PhongFrom(lights, 1, viewer, position, normal, material, NoColor)}})

\* The lighting argument of TraceRay, one of the two reflectance models.
Lighting(model, lights, ambientLight, viewer, position, normal, material) ==
    IF model = "lambertian"
    THEN LambertianReflectance(lights, position, normal, material)
    ELSE PhongReflectance(lights, ambientLight, viewer, position, normal, material)

VisibleLightsAll(lights, shadows) == lights

\* visibleLights: the lights whose shadow test appended them, in order.
VisibleLights(lights, shadows) ==
    LET RECURSIVE From(_)
        From(k) == IF k > Len(lights) THEN <<>>
                   ELSE (IF shadows[k].visible THEN <<lights[k]>> ELSE <<>>) \o From(k + 1)
    IN From(1)

ReflectedStrengthUnscaled(lightStrength, material) == lightStrength

\* The lightStrength argument of the recursive call.
ReflectedStrength(lightStrength, material) == RMul(lightStrength, material.Reflectance)

\* The colour an invocation returns, for the direct terms of the invocations
\* from the i-th on: its own term plus what its recursive call returned.
RECURSIVE ReturnedColor(_, _)
ReturnedColor(terms, i) ==
    IF i > Len(terms) THEN NoColor
    ELSE The({AddColor(AddColor(NoColor, terms[i]), reflectedColor) :
                 reflectedColor \in {ReturnedColor(terms, i + 1)}})

\* A TraceRay call that has not made its first invocation. Per invocation that
\* reached the lighting model, in order: the material hit, the lightStrength
\* it was called with, its surfaceColor and the term it added to its colour.
NewTrace(r, lightStrength, remainingDepth, lighting) ==
    [pc |-> "call", r |-> r, lightStrength |-> lightStrength,
     remainingDepth |-> remainingDepth, depth0 |-> remainingDepth, calls |-> 0,
     hitIndex |-> -1, material |-> -1, shaded |-> FALSE, intersection |-> Vec(0, 0, 0),
     shadows |-> <<>>, lighting |-> lighting, strength0 |-> lightStrength,
     normal |-> Vec(0, 0, 0), viewer |-> Vec(0, 0, 0), visibleLights |-> <<>>,
     materials |-> <<>>, strengths |-> <<>>, surfaces |-> <<>>, terms |-> <<>>,
     color |-> NoColor]

\* TraceRay from the lighting call on: the surface colour scaled by
\* lightStrength, then the recursion while depth remains, else the return.
TraceRayShade(s, tr, material, surfaceColor, reflected) ==
    The({IF ShouldRecurse(tr.remainingDepth)
         THEN [tr EXCEPT !.surfaces = Append(@, surfaceColor),
                         !.strengths = Append(@, tr.lightStrength),
                         !.materials = Append(@, material),
                         !.terms = terms,
                         !.r = reflected,
                         !.lightStrength = ReflectedStrength(@, material),
                         !.remainingDepth = @ - 1]
         ELSE [tr EXCEPT !.surfaces = Append(@, surfaceColor),
                         !.strengths = Append(@, tr.lightStrength),
                         !.materials = Append(@, material),
                         !.terms = terms,
                         !.color = ReturnedColor(terms, 1),
                         !.pc = "returned"] :
            terms \in {Append(tr.terms, ScaleColor(surfaceColor, tr.lightStrength))}})

\* TraceRay from the shadow tests to the lighting call.
TraceRayLight(s, tr, material, viewer, intersection, normal, shadows) ==
    The({The({TraceRayShade(s, [tr EXCEPT !.shaded = TRUE,
                                          !.intersection = intersection,
                                          !.shadows = shadows, !.normal = normal,
                                          !.viewer = viewer,
                                          !.visibleLights = visibleLights],
                            material, surfaceColor, reflected) :
                 surfaceColor \in {Lighting(tr.lighting, visibleLights, s.ambientLight,
                                            viewer, intersection, normal, material)},
                 reflected \in {ReflectedRay(tr.r, intersection, normal)}}) :
            visibleLights \in {VisibleLights(s.Lights, shadows)}})

\* TraceRay from the material lookup on, for the object hit and the hit
\* point: an out-of-range index into s.Materials is a run-time panic; a view
\* direction that cannot be normalized returns; otherwise the lights are
\* tested and, while depth remains, the reflected ray is traced with the
\* strength scaled by the material's reflectance.
TraceRayHit(s, tr, obj, intersection) ==
    IF MaterialID(obj) \notin 0 .. Len(s.Materials) - 1
    THEN [tr EXCEPT !.pc = "panic", !.material = MaterialID(obj)]
    ELSE The({IF ~viewer.ok
              THEN [tr EXCEPT !.pc = "returned", !.material = MaterialID(obj),
                              !.color = ReturnedColor(tr.terms, 1)]
              ELSE The({TraceRayLight(s, [tr EXCEPT !.material = MaterialID(obj)],
                                      s.Materials[MaterialID(obj) + 1], viewer.v,
                                      intersection, normal, shadows) :
                           normal \in {SurfaceNormal(obj, intersection)},
                           shadows \in {Shadows(s, intersection)}}) :
                 viewer \in {Normalize(Negative(tr.r.Direction))}})

\* TraceRay after its FindIntersection: no hit returns at once.
TraceRayFound(s, tr, found) ==
    IF ~found.hit
    THEN [tr EXCEPT !.pc = "returned", !.color = ReturnedColor(tr.terms, 1)]
    ELSE The({TraceRayHit(s, tr, obj, intersection) :
                 obj \in {s.Objects[found.index + 1]},
                 intersection \in {Add(tr.r.Position, Scale(tr.r.Direction, found.t))}})

\* One invocation of TraceRay, from its entry to its recursive call or, when
\* it makes none, to its return (the callers then only add up colours).
TraceRayBody(s, tr) ==
    The({TraceRayFound(s, [tr EXCEPT !.calls = @ + 1, !.hitIndex = found.index,
                                     !.material = -1, !.shaded = FALSE,
                                     !.shadows = <<>>, !.visibleLights = <<>>],
                          found) :
            found \in {FindIntersection(s.Objects, tr.r)}})

SceneFilteredInPlace(s, next) ==
    [s EXCEPT !.Lights = next.visibleLights
                          \o SubSeq(@, Len(next.visibleLights) + 1, Len(@))]

\* The receiver *s after an invocation: TraceRay and FindIntersection assign
\* only to locals (visibleLights is a slice of its own, r is a copy of the
\* argument), and Intersect and SurfaceNormal have value receivers.
SceneAfter(s, next) == s

\* s.TraceRay(r, lightStrength, remainingDepth, lighting), on an initialized scene.
TraceRayCall ==
    /\ trace.pc = "call"
    /\ \E next \in {TraceRayBody(scene, trace)} :
          /\ trace' = next
          /\ scene' = SceneAfter(scene, next)
    /\ UNCHANGED <<sceneState, probe, run>>
    /\ UNCHANGED renderVars

\* The scenes traced: a few layouts of primitives on the y axis, any material
\* ids from -1 to the number of materials, and a few sets of lights.
Mirror(y, up) == planeFactory(0, Vec(0, y, 0), Vec(0, up, 0))
Orb == sphereFactory(0, Vec(0, 3, 0), Rat(1))
Block == boxFactory(0, Vec(-1, 0, -1), Vec(1, 2, 1))

Layouts ==
    {<<>>,
     <<Mirror(0, 1)>>,
     <<Mirror(0, 1), Mirror(4, -1)>>,
     <<Mirror(0, 2), Orb>>,
     <<Block, Mirror(4, 1)>>,
     <<Orb, Mirror(0, 1), Mirror(4, -3)>>}

\* Material k of the pool reflects k - 1 times the light: 0, 1.0, 2.0, ...
\* and has a Phong exponent of k.
MaterialPool ==
    [k \in 1 .. MaxMaterials + 1 |->
        [Specular |-> Color(Rat(1), Rat(1), Rat(1)),
         Diffuse |-> Color(Rat(1), <<1, 2>>, Rat(0)),
         Ambient |-> Color(<<1, 2>>, <<1, 2>>, Rat(1)),
         Alpha |-> k,
         Reflectance |-> Rat(k - 1)]]

Lamp(x, y, z) ==
    [Position |-> Vec(x, y, z),
     Specular |-> Color(Rat(1), Rat(1), <<1, 2>>),
     Diffuse |-> Color(Rat(1), Rat(1), Rat(1)),
     Ambient |-> Color(Rat(1), <<1, 2>>, Rat(0))]

LightSets ==
    {<<>>,
     <<Lamp(0, 4, 0)>>,
     <<Lamp(0, 6, 0), Lamp(0, 1, 0)>>,
     <<Lamp(3, 4, 0), Lamp(0, 0, 0)>>}

\* The camera's lightingModel.
LightingModels == {"lambertian", "phong"}

PrimaryRays ==
    {Ray(Vec(0, 1, 0), Vec(0, -1, 0)),
     Ray(Vec(0, 1, 0), Vec(0, 2, 0)),
     Ray(Vec(0, 5, 0), Vec(0, -1, 0)),
     Ray(Vec(0, 1, 0), Vec(1, 0, 0)),
     Ray(Vec(0, 1, 0), Vec(0, 0, 0))}

WithMaterials(layout, ids) ==
    [i \in 1 .. Len(layout) |-> [layout[i] EXCEPT !.Material = ids[i]]]

\* renderScene before it decodes its input file.
TraceInit ==
    /\ scene = NoScene
    /\ sceneState = "unread"
    /\ trace = NoTrace
    /\ run = NoRun
    /\ probe = NoProbe
    /\ imageWidth = 0 /\ imageHeight = 0 /\ output = NilImage /\ threads = 0
    /\ antiAliasingFactor = 1
    /\ renderPc = "none" /\ pixelX = 0 /\ pixelY = 0 /\ wg = 0 /\ sema = 0
    /\ workers = <<>>

\* json.NewDecoder(input).Decode(data): the scene of the input file.
Decode ==
    /\ sceneState = "unread"
    /\ \E layout \in Layouts, n \in 0 .. MaxMaterials, lights \in LightSets :
          \E ids \in [1 .. Len(layout) -> -1 .. n] :
              scene' = [Materials |-> SubSeq(MaterialPool, 1, n),
                        Objects |-> WithMaterials(layout, ids),
                        Lights |-> lights,
                        ambientLight |-> NoColor]
    /\ sceneState' = "loaded"
    /\ UNCHANGED <<trace, probe, run>>
    /\ UNCHANGED renderVars

\* renderRays: s.TraceRay(ray, 1.0, maxRayReflections), reached only when
\* Initialize returned no error.
StartTrace ==
    /\ sceneState = "ready"
    /\ trace.pc = "none"
    /\ \E r \in PrimaryRays, d \in 0 .. MaxDepth, lighting \in LightingModels :
          trace' = NewTrace(r, Rat(1), d, lighting)
    /\ UNCHANGED <<scene, sceneState, probe, run>>
    /\ UNCHANGED renderVars

TraceNext == Decode \/ Initialize \/ StartTrace \/ TraceRayCall

TraceSpec == TraceInit /\ [][TraceNext]_vars

\* A call that has been made runs on: nothing suspends Initialize or TraceRay.
TraceFairSpec == TraceSpec /\ WF_vars(Initialize) /\ WF_vars(TraceRayCall)

\* ------------------------------------------------------------------------
\* Single calls of Vector.Normalize and Vector.Rotate
\* ------------------------------------------------------------------------

\* Whether v.Magnitude() is exact.
ExactMagnitude(v) == SqrtExact(Dot(v, v))

\* The vectors of the integer grid with an exact length, the zero vector
\* among them, and vectors with an infinite or NaN component.
GridVectors ==
    {v \in {Vec(x, y, z) : x \in -MaxCoord .. MaxCoord, y \in -MaxCoord .. MaxCoord,
                           z \in -MaxCoord .. MaxCoord} : ExactMagnitude(v)}
SpecialVectors ==
    {[X |-> PosInf, Y |-> Rat(0), Z |-> Rat(0)], [X |-> Rat(0), Y |-> NaN, Z |-> Rat(1)],
     [X |-> Rat(0), Y |-> Rat(0), Z |-> NegInf]}
Axes == {Vec(0, 0, 0), Vec(1, 0, 0), Vec(0, -2, 0), Vec(0, 0, 1), Vec(2, 1, 2)}
                \cup SpecialVectors

\* The angles of the rotations, in degrees: the quarter turns.
QuarterTurns == {Rat(0), Rat(90), Rat(180), Rat(-90)}

VectorInit ==
    /\ \/ \E v \in GridVectors \cup SpecialVectors :
             probe = [op |-> "Normalize", v |-> v, done |-> FALSE,
                      result |-> [v |-> v, ok |-> FALSE]]
       \/ \E v \in GridVectors, axis \in Axes, degrees \in QuarterTurns :
             probe = [op |-> "Rotate", v |-> v, axis |-> axis, degrees |-> degrees,
                      done |-> FALSE, result |-> [v |-> v, err |-> "nil"]]
    /\ scene = NoScene
    /\ sceneState = "unread"
    /\ trace = NoTrace
    /\ run = NoRun
    /\ imageWidth = 0 /\ imageHeight = 0 /\ output = NilImage /\ threads = 0
    /\ antiAliasingFactor = 1
    /\ renderPc = "none" /\ pixelX = 0 /\ pixelY = 0 /\ wg = 0 /\ sema = 0
    /\ workers = <<>>

\* v.Normalize()
NormalizeCall ==
    /\ probe.op = "Normalize"
    /\ ~probe.done
    /\ probe' = [probe EXCEPT !.done = TRUE, !.result = Normalize(probe.v)]
    /\ UNCHANGED <<scene, sceneState, trace, run>>
    /\ UNCHANGED renderVars

\* v.Rotate(degrees, axis)
RotateCall ==
    /\ probe.op = "Rotate"
    /\ ~probe.done
    /\ probe' = [probe EXCEPT !.done = TRUE,
                              !.result = Rotate(probe.v, probe.degrees, probe.axis)]
    /\ UNCHANGED <<scene, sceneState, trace, run>>
    /\ UNCHANGED renderVars

VectorSpec == VectorInit /\ [][NormalizeCall \/ RotateCall]_vars

\* ------------------------------------------------------------------------
\* camera.Scope
\* ------------------------------------------------------------------------

\* A *raytracing.Vector of the Scope: nil when the JSON has no such key.
NilVector == [isNil |-> TRUE, v |-> Vec(0, 0, 0)]
Ptr(v) == [isNil |-> FALSE, v |-> v]

Scope(position, target, roll, right, up, forward) ==
    [Position |-> position, Target |-> target, Roll |-> roll, Right |-> right,
     Up |-> up, Forward |-> forward]

\* What Scope.Initialize leaves: the scope and "nil", "error" or "panic".
Initialized(s, err) == [scope |-> s, err |-> err]

\* Scope.Initialize from `right, ok = s.Right.Normalize()` on: the three
\* vectors are normalized one by one; a nil one is dereferenced.
InitializeBasis(s) ==
    IF s.Right.isNil THEN Initialized(s, "panic")
    ELSE IF ~Normalize(s.Right.v).ok THEN Initialized(s, "error")
    ELSE IF s.Up.isNil THEN Initialized(s, "panic")
    ELSE IF ~Normalize(s.Up.v).ok THEN Initialized(s, "error")
    ELSE IF s.Forward.isNil THEN Initialized(s, "panic")
    ELSE IF ~Normalize(s.Forward.v).ok THEN Initialized(s, "error")
    ELSE Initialized([s EXCEPT !.Up = Ptr(Normalize(s.Up.v).v),
                               !.Right = Ptr(Normalize(s.Right.v).v),
                               !.Forward = Ptr(Normalize(s.Forward.v).v)], "nil")

\* Scope.Initialize with a target, from the normalized forward on: right and
\* up by cross products with the vertical, up rolled about forward, right again.
InitializeLookAt(s, forward) ==
    The({IF rolled.err # "nil" THEN Initialized(s, "error")
         ELSE InitializeBasis([s EXCEPT !.Up = Ptr(rolled.v),
                                        !.Right = Ptr(Cross(forward, rolled.v)),
                                        !.Forward = Ptr(forward)]) :
            rolled \in {Rotate(Cross(Cross(forward, Normalize(Vec(0, 1, 0)).v), forward),
                               RNeg(s.Roll), forward)}})

\* s.Initialize() of a Scope
InitializeScope(s) ==
    IF ~s.Target.isNil
    THEN The({IF ~forward.ok THEN Initialized(s, "error")
              ELSE InitializeLookAt(s, forward.v) :
                 forward \in {Normalize(Subtract(s.Target.v, s.Position))}})
    ELSE InitializeBasis(s)

\* The scopes of the scene files: a position and a target on the grid, or the
\* three vectors given, any of them left out; the roll a quarter turn.
Positions == {Vec(0, 0, 0), Vec(-1, -2, 0)}
Targets == {Vec(0, 0, 0), Vec(2, 2, 0), Vec(0, 0, -2), Vec(0, 1, 0), Vec(2, 0, 0)}
BasisVectors == {NilVector, Ptr(Vec(0, 0, 0)), Ptr(Vec(2, 0, 0)), Ptr(Vec(0, 1, 0)),
                 Ptr(Vec(0, 0, -1))}

\* Whether every square root Initialize takes of the look-at construction is
\* exact: the length of target - position and the length of its cross
\* product with the vertical.
ExactLookAt(position, target) ==
    \E d \in {Subtract(target, position)} :
        /\ ExactMagnitude(d)
        /\ ExactMagnitude(Cross(Normalize(d).v, Vec(0, 1, 0)))

ScopeInit ==
    /\ \/ \E position \in Positions, target \in Targets, roll \in QuarterTurns :
             /\ ExactLookAt(position, target)
             /\ probe = [op |-> "Scope.Initialize", done |-> FALSE, err |-> "nil",
                         config |-> Scope(position, Ptr(target), roll, NilVector,
                                          NilVector, NilVector),
                         scope |-> Scope(position, Ptr(target), roll, NilVector,
                                         NilVector, NilVector)]
       \/ \E position \in Positions, right \in BasisVectors, up \in BasisVectors,
             forward \in BasisVectors :
             probe = [op |-> "Scope.Initialize", done |-> FALSE, err |-> "nil",
                      config |-> Scope(position, NilVector, Rat(0), right, up, forward),
                      scope |-> Scope(position, NilVector, Rat(0), right, up, forward)]
    /\ scene = NoScene
    /\ sceneState = "unread"
    /\ trace = NoTrace
    /\ run = NoRun
    /\ imageWidth = 0 /\ imageHeight = 0 /\ output = NilImage /\ threads = 0
    /\ antiAliasingFactor = 1
    /\ renderPc = "none" /\ pixelX = 0 /\ pixelY = 0 /\ wg = 0 /\ sema = 0
    /\ workers = <<>>

\* c.Scope.Initialize(), called by the camera's UnmarshalJSON
ScopeInitialize ==
    /\ probe.op = "Scope.Initialize"
    /\ ~probe.done
    /\ \E res \in {InitializeScope(probe.scope)} :
          probe' = [probe EXCEPT !.done = TRUE, !.scope = res.scope, !.err = res.err]
    /\ UNCHANGED <<scene, sceneState, trace, run>>
    /\ UNCHANGED renderVars

ScopeSpec == ScopeInit /\ [][ScopeInitialize]_vars

\* ------------------------------------------------------------------------
\* Lenses: CreateLens, setAspectRatio, and SetImageSize on them
\* ------------------------------------------------------------------------

\* A *float64 that json left nil.
NilFloat == <<>>

\* The lens CreateLens makes of the camera's JSON.  The embedded *ViewPort of
\* an orthographic lens is allocated by the decoder only when the JSON has
\* the key viewWidth; a float64 whose key is absent is 0.
OrthographicLens(hasViewWidth, viewWidth) ==
    [name |-> "orthographic",
     ViewPort |-> [isNil |-> ~hasViewWidth, ViewWidth |-> viewWidth, viewHeight |-> Rat(0)]]
FisheyeLens(hfov) == [name |-> "fisheye", HFOV |-> hfov, VFOV |-> Rat(0)]
PerspectiveLens(opticalRadius, focalLength, hfov, viewWidth) ==
    [name |-> "perspective", OpticalRadius |-> opticalRadius,
     FocalLength |-> focalLength, HFOV |-> hfov, ViewWidth |-> viewWidth,
     viewHeight |-> Rat(0)]

\* What a setAspectRatio leaves: the lens and "nil", "error" or "panic".
Aspect(lens, err) == [lens |-> lens, err |-> err]

\* (*ViewPort).setAspectRatio, promoted to the orthographic lens: a nil
\* *ViewPort is dereferenced.
ViewPortSetAspectRatio(l, ratio) ==
    IF l.ViewPort.isNil THEN Aspect(l, "panic")
    ELSE Aspect([l EXCEPT !.ViewPort.viewHeight = RDiv(l.ViewPort.ViewWidth, ratio)], "nil")

\* (*FisheyeLens).setAspectRatio
FisheyeSetAspectRatio(l, ratio) == Aspect([l EXCEPT !.VFOV = RDiv(l.HFOV, ratio)], "nil")

\* (*PerspectiveLens).setAspectRatio from `l.ViewWidth = ...` of the hfov
\* branch on, with the radius and the focal length resolved.
PerspectiveResolved(l, half, ratio) ==
    The({Aspect([l EXCEPT !.ViewWidth = viewWidth,
                          !.viewHeight = RDiv(viewWidth, ratio)], "nil") :
            viewWidth \in {RMul(RMul(SinPi(half), l.OpticalRadius), Rat(2))}})

\* (*PerspectiveLens).setAspectRatio
PerspectiveSetAspectRatio(l, ratio) ==
    IF l.HFOV # Rat(0)
    THEN The({IF l.FocalLength # NilFloat
              THEN PerspectiveResolved(
                       [l EXCEPT !.OpticalRadius =
                            RMul(RDiv(Rat(1), CosPi(half)), l.FocalLength)],
                       half, ratio)
              ELSE IF l.OpticalRadius # NilFloat
              THEN PerspectiveResolved(
                       [l EXCEPT !.FocalLength = RMul(CosPi(half), l.OpticalRadius)],
                       half, ratio)
              ELSE Aspect(l, "error") :
                 half \in {RMul(RDiv(l.HFOV, Rat(180)), <<1, 2>>)}})
    ELSE IF l.FocalLength = NilFloat THEN Aspect(l, "error")
    ELSE Aspect([l EXCEPT !.viewHeight = RDiv(l.ViewWidth, ratio)], "nil")

\* c.Lens.setAspectRatio(ratio)
SetAspectRatio(l, ratio) ==
    CASE l.name = "orthographic" -> ViewPortSetAspectRatio(l, ratio)
      [] l.name = "fisheye" -> FisheyeSetAspectRatio(l, ratio)
      [] l.name = "perspective" -> PerspectiveSetAspectRatio(l, ratio)

\* The lens parameters of the scene files: a key absent or present, the field
\* of view a half turn or a full turn.
ViewWidths == {Rat(0), Rat(2)}
FieldsOfView == {Rat(0), Rat(180), Rat(360)}
Lenses ==
    {OrthographicLens(FALSE, Rat(0))}
    \cup {OrthographicLens(TRUE, w) : w \in ViewWidths}
    \cup {FisheyeLens(hfov) : hfov \in FieldsOfView}
    \cup {PerspectiveLens(o, f, hfov, w) :
              o \in {NilFloat, Rat(2)}, f \in {NilFloat, Rat(1)},
              hfov \in FieldsOfView, w \in ViewWidths}

\* A decoded camera whose image size has not been set.
LensInit ==
    /\ \E l \in Lenses, width \in 0 .. MaxWidth, height \in 0 .. MaxHeight :
          probe = [op |-> "SetImageSize", config |-> l, lens |-> l, width |-> width,
                   height |-> height, done |-> FALSE, err |-> "nil"]
    /\ scene = NoScene
    /\ sceneState = "unread"
    /\ trace = NoTrace
    /\ run = NoRun
    /\ imageWidth = 0 /\ imageHeight = 0 /\ output = NilImage /\ threads = 0
    /\ antiAliasingFactor = 1
    /\ renderPc = "none" /\ pixelX = 0 /\ pixelY = 0 /\ wg = 0 /\ sema = 0
    /\ workers = <<>>

\* c.SetImageSize(width, height)
SetImageSize ==
    /\ probe.op = "SetImageSize"
    /\ ~probe.done
    /\ imageWidth' = probe.width
    /\ imageHeight' = probe.height
    /\ \E res \in {SetAspectRatio(probe.lens,
                                  RDiv(Rat(probe.width), Rat(probe.height)))} :
          /\ probe' = [probe EXCEPT !.done = TRUE, !.lens = res.lens, !.err = res.err]
          /\ output' = IF res.err = "nil" THEN NewRGBA(probe.width, probe.height)
                       ELSE output
    /\ UNCHANGED <<scene, sceneState, trace, run>>
    /\ UNCHANGED <<antiAliasingFactor, threads, renderPc, pixelX, pixelY, wg, sema, workers>>

LensSpec == LensInit /\ [][SetImageSize]_vars

\* ------------------------------------------------------------------------
\* Single calls of LambertianReflectance and PhongReflectance
\* ------------------------------------------------------------------------

\* The most lights handed to a lighting model.
MaxLights == 2

\* Lights about the surface point (0, 0, 0): above it, below it, oblique, in
\* the surface's plane, and at the point itself.
ProbeLights == {Lamp(0, 2, 0), Lamp(0, -2, 0), Lamp(3, 4, 0), Lamp(2, 0, 0), Lamp(0, 0, 0)}
ProbeNormals == {Vec(0, 1, 0), Vec(0, -1, 0)}
ProbeViewers == {Vec(0, 1, 0), Normalize(Vec(3, 4, 0)).v}
ProbeAmbients == {NoColor, Color(Rat(1), <<1, 2>>, Rat(2))}

LightingInit ==
    /\ \E n \in 0 .. MaxLights, model \in LightingModels, normal \in ProbeNormals,
          viewer \in ProbeViewers, ambientLight \in ProbeAmbients,
          m \in 1 .. MaxMaterials :
          \E lights \in [1 .. n -> ProbeLights] :
              probe = [op |-> "Lighting", model |-> model, lights |-> lights,
                       ambientLight |-> ambientLight, viewer |-> viewer,
                       position |-> Vec(0, 0, 0), normal |-> normal,
                       material |-> MaterialPool[m], done |-> FALSE,
                       result |-> NoColor]
    /\ scene = NoScene
    /\ sceneState = "unread"
    /\ trace = NoTrace
    /\ run = NoRun
    /\ imageWidth = 0 /\ imageHeight = 0 /\ output = NilImage /\ threads = 0
    /\ antiAliasingFactor = 1
    /\ renderPc = "none" /\ pixelX = 0 /\ pixelY = 0 /\ wg = 0 /\ sema = 0
    /\ workers = <<>>

\* lighting(visibleLights, s.ambientLight, viewer, intersection, normal, material)
LightingCall ==
    /\ probe.op = "Lighting"
    /\ ~probe.done
    /\ probe' = [probe EXCEPT !.done = TRUE,
                              !.result = Lighting(probe.model, probe.lights,
                                                  probe.ambientLight, probe.viewer,
                                                  probe.position, probe.normal,
                                                  probe.material)]
    /\ UNCHANGED <<scene, sceneState, trace, run>>
    /\ UNCHANGED renderVars

LightingSpec == LightingInit /\ [][LightingCall]_vars

\* ------------------------------------------------------------------------
\* main, walkPath and renderScene
\* ------------------------------------------------------------------------

\* The most paths on the command line.
MaxPaths == 2

\* What walkPath finds at a path: nothing (os.Stat fails), a regular file
\* that is not .json, or a scene file.  A directory is walked file by file,
\* as a list of paths is.
PathKinds == {"missing", "other", "scene"}

\* The calls renderScene makes, in order, and the error it returns when one fails.
Calls == <<"Open", "Decode", "Initialize", "SetImageSize", "Render", "OpenFile",
           "Save", "Sync">>

ProceedAlways(err, next) == next

\* `if err != nil { return fmt.Errorf(...) }` after a call of renderScene.
Proceed(err, next) == IF err # "nil" THEN "return" ELSE next

CountedAlways(err) == TRUE

\* walkPath counts the scene when renderScene returned nil.
Counted(err) == err = "nil"

\* main before its loop over os.Args[1:].
NewRun(paths) ==
    [pc |-> "main", paths |-> paths, path |-> 0, sceneCount |-> 0, err |-> "nil",
     steps |-> <<>>, results |-> <<>>, rendered |-> {}, outputs |-> {}]

RunInit ==
    /\ \E n \in 0 .. MaxPaths : \E paths \in [1 .. n -> PathKinds] : run = NewRun(paths)
    /\ scene = NoScene
    /\ sceneState = "unread"
    /\ trace = NoTrace
    /\ probe = NoProbe
    /\ imageWidth = 0 /\ imageHeight = 0 /\ output = NilImage /\ threads = 0
    /\ antiAliasingFactor = 1
    /\ renderPc = "none" /\ pixelX = 0 /\ pixelY = 0 /\ wg = 0 /\ sema = 0
    /\ workers = <<>>

\* walkPath(path) for the next path, up to its call of renderScene.
WalkPath ==
    /\ run.pc = "main"
    /\ run.path < Len(run.paths)
    /\ IF run.paths[run.path + 1] = "scene"
       THEN run' = [run EXCEPT !.path = @ + 1, !.pc = "Open", !.err = "nil",
                               !.steps = <<>>]
       ELSE run' = [run EXCEPT !.path = @ + 1, !.steps = <<>>, !.err = "nil",
                               !.results = Append(@, "skipped")]
    /\ UNCHANGED <<scene, sceneState, trace, probe>>
    /\ UNCHANGED renderVars

\* One call of renderScene, which fails or not, and the error test after it.
Call(k, r, ok) ==
    The({[r EXCEPT !.steps = Append(@, [call |-> Calls[k], ok |-> ok]),
                   !.err = err,
                   !.pc = Proceed(err, IF k < Len(Calls) THEN Calls[k + 1] ELSE "return"),
                   !.rendered = IF k = 5 /\ ok THEN @ \cup {r.path} ELSE @,
                   !.outputs = IF k = 6 /\ ok THEN @ \cup {r.path} ELSE @] :
            err \in {IF ok THEN "nil" ELSE Calls[k]}})

\* os.Open(inputPath)
RunOpen ==
    /\ run.pc = "Open"
    /\ \E ok \in BOOLEAN : run' = Call(1, run, ok)
    /\ UNCHANGED <<scene, sceneState, trace, probe>>
    /\ UNCHANGED renderVars

\* json.NewDecoder(input).Decode(data)
RunDecode ==
    /\ run.pc = "Decode"
    /\ \E ok \in BOOLEAN : run' = Call(2, run, ok)
    /\ UNCHANGED <<scene, sceneState, trace, probe>>
    /\ UNCHANGED renderVars

\* data.Scene.Initialize()
RunInitialize ==
    /\ run.pc = "Initialize"
    /\ \E ok \in BOOLEAN : run' = Call(3, run, ok)
    /\ UNCHANGED <<scene, sceneState, trace, probe>>
    /\ UNCHANGED renderVars

\* data.Camera.SetImageSize(data.Width, data.Height)
RunSetImageSize ==
    /\ run.pc = "SetImageSize"
    /\ \E ok \in BOOLEAN : run' = Call(4, run, ok)
    /\ UNCHANGED <<scene, sceneState, trace, probe>>
    /\ UNCHANGED renderVars

\* data.Camera.Render(&data.Scene, 15, 2<<10)
RunRender ==
    /\ run.pc = "Render"
    /\ \E ok \in BOOLEAN : run' = Call(5, run, ok)
    /\ UNCHANGED <<scene, sceneState, trace, probe>>
    /\ UNCHANGED renderVars

\* os.OpenFile(outputPath, O_WRONLY|O_CREATE|O_TRUNC, 0600)
RunOpenFile ==
    /\ run.pc = "OpenFile"
    /\ \E ok \in BOOLEAN : run' = Call(6, run, ok)
    /\ UNCHANGED <<scene, sceneState, trace, probe>>
    /\ UNCHANGED renderVars

\* data.Camera.Save(output)
RunSave ==
    /\ run.pc = "Save"
    /\ \E ok \in BOOLEAN : run' = Call(7, run, ok)
    /\ UNCHANGED <<scene, sceneState, trace, probe>>
    /\ UNCHANGED renderVars

\* output.Sync()
RunSync ==
    /\ run.pc = "Sync"
    /\ \E ok \in BOOLEAN : run' = Call(8, run, ok)
    /\ UNCHANGED <<scene, sceneState, trace, probe>>
    /\ UNCHANGED renderVars

\* renderScene returns to walkPath, which prints the error or counts the scene.
RunReturn ==
    /\ run.pc = "return"
    /\ run' = [run EXCEPT !.pc = "main",
                          !.results = Append(@, run.err),
                          !.sceneCount = IF Counted(run.err) THEN @ + 1 ELSE @]
    /\ UNCHANGED <<scene, sceneState, trace, probe>>
    /\ UNCHANGED renderVars

\* main after its loop: it prints the count.
MainReturn ==
    /\ run.pc = "main"
    /\ run.path = Len(run.paths)
    /\ run' = [run EXCEPT !.pc = "done"]
    /\ UNCHANGED <<scene, sceneState, trace, probe>>
    /\ UNCHANGED renderVars

RunNext ==
    \/ WalkPath \/ RunOpen \/ RunDecode \/ RunInitialize \/ RunSetImageSize
    \/ RunRender \/ RunOpenFile \/ RunSave \/ RunSync \/ RunReturn \/ MainReturn

RunSpec == RunInit /\ [][RunNext]_vars

\* ------------------------------------------------------------------------
\* Properties of the render loop
\* ------------------------------------------------------------------------

\* The pixels of the image: 0 <= x < imageWidth, 0 <= y < imageHeight.
Grid == (0 .. imageWidth - 1) \X (0 .. imageHeight - 1)

\* Workers whose c.output.Set call has been made.
HasSet(i) == workers[i].pc \in {"release", "exit", "done"}

\* C1: with a thread budget of at least 1, the workers that have sent on the
\* semaphore and not yet received from it are never more than the budget.
C1_GateBounded == threads >= 1 => Cardinality(Holding) <= threads

\* C1 witness: the gate is full and another worker is waiting at it.
C1_Witness ==
    /\ threads >= 1
    /\ Cardinality(Holding) = threads
    /\ \E i \in 1 .. Len(workers) : workers[i].pc = "gate"

\* C2: the worker goroutines that exist at once (started, not yet returned,
\* whether or not past the gate) are never more than the thread budget.
C2_FanOutBounded == threads >= 1 => Cardinality(Live) <= threads

\* C3: once Render has returned nil, every pixel of the grid has been written
\* and no worker is still running.
C3_ReturnAfterJoin ==
    renderPc = "returnedNil" =>
        /\ Live = {}
        /\ DOMAIN output.Pix = Grid
        /\ \A p \in Grid : output.Pix[p] >= 1
        /\ \A p \in Grid : \E i \in 1 .. Len(workers) :
              TargetPixel(workers[i]) = p /\ HasSet(i)

\* C3 witness: Render has returned nil from an image of at least two pixels.
C3_Witness == renderPc = "returnedNil" /\ imageWidth * imageHeight >= 2

\* C4: no two workers are dispatched with the same pixel, a pixel's write count
\* is the number of workers of that very pixel that have made their Set call
\* (never more than one), and once the loops are over every pixel has a worker
\* and, once Render has returned, exactly one write.
C4_PixelWrittenOnce ==
    /\ \A i, j \in 1 .. Len(workers) :
          i # j => <<workers[i].pixelX, workers[i].pixelY>>
                     # <<workers[j].pixelX, workers[j].pixelY>>
    /\ \A p \in DOMAIN output.Pix :
          /\ output.Pix[p] <= 1
          /\ output.Pix[p] =
                Cardinality({i \in 1 .. Len(workers) :
                    <<workers[i].pixelX, workers[i].pixelY>> = p /\ HasSet(i)})
    /\ renderPc \in {"wait", "returnedNil"} =>
          {<<workers[i].pixelX, workers[i].pixelY>> : i \in 1 .. Len(workers)} = Grid
    /\ renderPc = "returnedNil" => \A p \in Grid : output.Pix[p] = 1

\* C4 witness: two pixels written by two workers while Render is still waiting.
C4_Witness ==
    /\ renderPc = "wait"
    /\ Cardinality({i \in 1 .. Len(workers) : HasSet(i)}) >= 2
    /\ Live # {}

\* C5: with a thread budget of at least 1 and the pixel buffer set, under fair
\* scheduling Render eventually returns nil with every pixel's worker
\* dispatched and finished, every pixel written and the gate empty.
C5_RenderTerminates ==
    (threads >= 1 /\ ~output.isNil) ~>
        /\ renderPc = "returnedNil"
        /\ Len(workers) = imageWidth * imageHeight
        /\ \A i \in 1 .. Len(workers) : workers[i].pc = "done"
        /\ \A p \in Grid : output.Pix[p] = 1
        /\ sema = 0

\* C5 witness: Render has returned although more workers than the budget
\* contended for the gate.
C5_Witness ==
    /\ renderPc = "returnedNil"
    /\ threads >= 1
    /\ Len(workers) > threads

\* Render's error goes with a nil pixel buffer, no worker and no pixel; a
\* return with the buffer created is the nil return.
ErrorOnlyWithoutBuffer ==
    /\ renderPc = "returnedErr" =>
          /\ output.isNil
          /\ workers = <<>>
          /\ wg = 0
          /\ sema = 0
    /\ renderPc = "returnedNil" => ~output.isNil
    /\ output.isNil => renderPc \in {"start", "returnedErr"} /\ workers = <<>>
    /\ ~output.isNil => renderPc # "returnedErr"

\* C14: Render returns its error iff the pixel buffer was not created, and has
\* then started no worker and written no pixel; with the buffer created (and
\* a thread budget of at least 1) it returns nil.
C14_ErrorIffNoBuffer ==
    /\ []ErrorOnlyWithoutBuffer
    /\ (renderPc = "start" /\ output.isNil) ~> (renderPc = "returnedErr")
    /\ (renderPc = "start" /\ ~output.isNil /\ threads >= 1) ~> (renderPc = "returnedNil")

\* Render has returned its error for an image that has pixels.
C14_Witness ==
    /\ renderPc = "returnedErr"
    /\ imageWidth * imageHeight >= 1
    /\ threads >= 1

\* ------------------------------------------------------------------------
\* Properties of the scene
\* ------------------------------------------------------------------------

\* The valid hit of one primitive on the probe's ray: its Intersect over the
\* whole range FindIntersection starts from.
ValidHit(obj) == Intersect(obj, probe.r, FarRange)

\* The sequence positions of the scene's primitives with a valid hit.
Hitters == {i \in 1 .. Len(scene.Objects) : ValidHit(scene.Objects[i]).hit}

\* C7: FindIntersection reports a hit iff some primitive has a valid hit in
\* (1e-4, 20000); its t is then the least valid hit parameter and its index
\* the lowest index attaining it; without a hit the index is -1.
C7_NearestHit ==
    (probe.op = "FindIntersection" /\ probe.done) =>
        LET res == probe.result
        IN /\ res.hit <=> Hitters # {}
           /\ ~res.hit => res.index = -1 /\ res.t = FarRange
           /\ res.hit =>
                /\ res.index + 1 \in Hitters
                /\ res.t = ValidHit(scene.Objects[res.index + 1]).t
                /\ RGt(res.t, Epsilon) /\ RLt(res.t, FarRange)
                /\ \A i \in Hitters : RLe(res.t, ValidHit(scene.Objects[i]).t)
                /\ \A i \in Hitters :
                      ValidHit(scene.Objects[i]).t = res.t => res.index + 1 <= i

\* C7 witness: a farther primitive comes first in the list, and two primitives
\* tie for the nearest hit.
C7_Witness ==
    /\ probe.op = "FindIntersection" /\ probe.done /\ probe.result.hit
    /\ \E i, j, k \in Hitters :
          /\ i < j /\ j < k
          /\ RLt(ValidHit(scene.Objects[j]).t, ValidHit(scene.Objects[i]).t)
          /\ ValidHit(scene.Objects[j]).t = ValidHit(scene.Objects[k]).t
          /\ probe.result.index = j - 1

\* C8: each primitive's Intersect returns either (true, t) with
\* 1e-4 < t < maxRange, or (false, maxRange) with the maxRange passed in.
C8_IntersectContract ==
    (probe.op = "Intersect" /\ probe.done) =>
        \/ /\ probe.result.hit
           /\ RGt(probe.result.t, Epsilon)
           /\ RLt(probe.result.t, probe.maxRange)
        \/ /\ ~probe.result.hit
           /\ probe.result.t = probe.maxRange

\* C8 witness: a box was hit within a range shorter than the default, after
\* divisions by a zero direction component.
C8_Witness ==
    /\ probe.op = "Intersect" /\ probe.done
    /\ probe.result.hit
    /\ probe.obj.type = "box"
    /\ probe.r.Direction.Z = Rat(0)
    /\ probe.maxRange = Rat(2)

\* ------------------------------------------------------------------------
\* Properties of Initialize and TraceRay
\* ------------------------------------------------------------------------

\* The invocations of a TraceRay call so far and the depth that remains: one
\* level is used per recursive call, and the depth never goes below 0.
Invocations ==
    trace.pc # "none" =>
        /\ trace.calls <= trace.depth0 + 1
        /\ trace.remainingDepth >= 0
        /\ trace.pc = "call" => trace.remainingDepth = trace.depth0 - trace.calls
        /\ trace.pc # "call" => trace.remainingDepth = trace.depth0 - trace.calls + 1

\* C6: on any scene, for any ray and any reflectances, TraceRay(ray, strength, d)
\* with d >= 0 makes at most d + 1 invocations, remainingDepth going down by
\* exactly 1 per recursive call and never below 0, and the call returns.
C6_TraceRayTerminates ==
    /\ []Invocations
    /\ (trace.pc = "call") ~> (trace.pc = "returned")

\* A call that used every level of its depth, through a material that
\* reflects all the light or more, and returned.
C6_Witness ==
    /\ trace.pc = "returned"
    /\ trace.depth0 = MaxDepth
    /\ trace.calls = MaxDepth + 1
    /\ RLe(Rat(1), trace.lightStrength)

\* C9: Initialize returns an error iff some object's material index is outside
\* [0, len(Materials)); after a successful Initialize no material lookup of
\* TraceRay is out of bounds, although TraceRay does not test the index.
C9_MaterialIndicesChecked ==
    /\ sceneState = "error" <=>
          /\ sceneState # "loaded"
          /\ \E i \in 1 .. Len(scene.Objects) :
                \/ scene.Objects[i].Material < 0
                \/ scene.Objects[i].Material >= Len(scene.Materials)
    /\ trace.pc # "panic"
    /\ (trace.pc # "none" /\ trace.hitIndex # -1) =>
          /\ trace.material >= 0
          /\ trace.material < Len(scene.Materials)

\* A recursive TraceRay call that looked up the last material of the list.
C9_Witness ==
    /\ sceneState = "ready"
    /\ trace.pc # "none"
    /\ trace.calls >= 2
    /\ trace.hitIndex # -1
    /\ Len(scene.Materials) >= 2
    /\ trace.material = Len(scene.Materials) - 1

\* C10: in the shadow test a light is left out of the visible set only if the
\* light ray's intersection is strictly before the light, t < 1; with no
\* intersection or one at or beyond the light, t >= 1, the light is visible.
C10_OccluderStrictlyBetween ==
    trace.pc # "none" =>
        \A k \in DOMAIN trace.shadows :
            trace.shadows[k].visible <=>
                ~(trace.shadows[k].hit /\ RLt(trace.shadows[k].t, Rat(1)))

\* What a primitive's Intersect reports for the light ray of light k from the
\* hit point of the last invocation.
OnLightRay(i, k) ==
    Intersect(scene.Objects[i], LightRay(trace.intersection, scene.Lights[k]), FarRange)

\* The primitives cutting that light ray between the hit point and the light,
\* and those cutting it exactly at the light.
Occluders(k) ==
    {i \in 1 .. Len(scene.Objects) : \E h \in {OnLightRay(i, k)} : h.hit /\ RLt(h.t, Rat(1))}
AtLight(k) ==
    {i \in 1 .. Len(scene.Objects) : \E h \in {OnLightRay(i, k)} : h.hit /\ h.t = Rat(1)}

\* A sequence without the elements at the positions removed.
Without(seq, removed) ==
    LET RECURSIVE From(_)
        From(i) == IF i > Len(seq) THEN <<>>
                   ELSE (IF i \in removed THEN <<>> ELSE <<seq[i]>>) \o From(i + 1)
    IN From(1)

\* The lights the shadow tests found visible, less every light with an occluder.
Unoccluded ==
    Without(scene.Lights,
            {k \in 1 .. Len(scene.Lights) : ~trace.shadows[k].visible \/ Occluders(k) # {}})

\* The material of the object hit by the last invocation.
HitMaterial == scene.Materials[trace.material + 1]

Called(name) == \E k \in DOMAIN run.steps : run.steps[k].call = name
Failed(name) == \E k \in DOMAIN run.steps : run.steps[k] = [call |-> name, ok |-> FALSE]
Succeeded(name) == \E k \in DOMAIN run.steps : run.steps[k] = [call |-> name, ok |-> TRUE]

\* C12: when the decoding, Scene.Initialize or SetImageSize fails, renderScene
\* returns an error and has neither called Render nor opened the output file;
\* the output file is opened only after Render returned nil; sceneCount counts
\* the renderScene calls that returned nil.
C12_FailFast ==
    run.pc # "none" =>
        /\ \A name \in {"Decode", "Initialize", "SetImageSize"} :
              Failed(name) =>
                  /\ run.pc \in {"return", "main", "done"}
                  /\ run.err # "nil"
                  /\ ~Called("Render")
                  /\ ~Called("OpenFile")
                  /\ run.path \notin run.outputs
        /\ Called("OpenFile") => Succeeded("Render")
        /\ run.outputs \subseteq run.rendered
        /\ run.sceneCount =
              Cardinality({k \in DOMAIN run.results : run.results[k] = "nil"})
        /\ \A k \in DOMAIN run.results :
              run.results[k] = "nil" => run.paths[k] = "scene" /\ k \in run.outputs

\* Two scene files walked: one rendered and counted, the other refused by
\* SetImageSize.
C12_Witness ==
    /\ run.pc = "done"
    /\ run.sceneCount = 1
    /\ run.results = <<"nil", "SetImageSize">>
    /\ Failed("SetImageSize")
    /\ run.outputs = {1}

\* Whether a lens configuration lacks its required parameter: viewWidth for
\* the orthographic lens, hfov for the fisheye lens, and for the perspective
\* lens a focal length, given or resolved from hfov and opticalRadius.
MissingParameter(l) ==
    CASE l.name = "orthographic" -> l.ViewPort.isNil
      [] l.name = "fisheye" -> l.HFOV = Rat(0)
      [] l.name = "perspective" ->
            ~(l.FocalLength # NilFloat \/ (l.HFOV # Rat(0) /\ l.OpticalRadius # NilFloat))

\* C13: SetImageSize on a lens that lacks its required parameter returns an
\* error and creates no pixel buffer.
C13_MissingParameterFails ==
    (probe.op = "SetImageSize" /\ probe.done /\ MissingParameter(probe.config)) =>
        /\ probe.err = "error"
        /\ output.isNil

\* The part of C13 that the perspective lens meets: without a focal length
\* that can be resolved its SetImageSize returns an error and creates no
\* buffer, and with one it returns nil and creates the buffer.
C13_PerspectiveFails ==
    (probe.op = "SetImageSize" /\ probe.done /\ probe.config.name = "perspective") =>
        /\ MissingParameter(probe.config) <=> probe.err = "error"
        /\ output.isNil <=> probe.err = "error"

IsZeroVector(v) == v.X = Rat(0) /\ v.Y = Rat(0) /\ v.Z = Rat(0)

UnitBasis(s) ==
    /\ Magnitude(s.Right.v) = Rat(1)
    /\ Magnitude(s.Up.v) = Rat(1)
    /\ Magnitude(s.Forward.v) = Rat(1)
OrthogonalBasis(s) ==
    /\ Dot(s.Right.v, s.Up.v) = Rat(0)
    /\ Dot(s.Up.v, s.Forward.v) = Rat(0)
    /\ Dot(s.Forward.v, s.Right.v) = Rat(0)

\* C16: after a successful Scope.Initialize, right, up and forward have unit
\* length and are pairwise orthogonal, whether derived from the target or given.
C16_OrthonormalBasis ==
    (probe.op = "Scope.Initialize" /\ probe.done /\ probe.err = "nil") =>
        /\ UnitBasis(probe.scope)
        /\ OrthogonalBasis(probe.scope)

\* The part of C16 that Scope.Initialize meets: unit length always, and
\* orthogonality when the basis was derived from a target or the vectors given
\* were orthogonal.
C16_UnitBasis ==
    (probe.op = "Scope.Initialize" /\ probe.done /\ probe.err = "nil") =>
        /\ UnitBasis(probe.scope)
        /\ (~probe.config.Target.isNil \/ OrthogonalBasis(probe.config))
              => OrthogonalBasis(probe.scope)

\* The initial lightStrength times the reflectances of the materials hit at
\* the bounces before the k-th invocation that reached the lighting model.
RECURSIVE Attenuation(_)
Attenuation(k) ==
    IF k = 1 THEN trace.strength0
    ELSE RMul(Attenuation(k - 1), trace.materials[k - 1].Reflectance)

\* C18: the direct term of each bounce is its surface colour times the initial
\* lightStrength and the reflectances of the materials hit before it; an
\* invocation that shaded a hit returns without recursing only when no depth
\* remains, whatever the reflectance; and when the first material hit reflects
\* nothing, the colour returned is the first direct term.
C18_DirectTermScaled ==
    trace.pc # "none" =>
        /\ \A k \in DOMAIN trace.terms :
              /\ trace.strengths[k] = Attenuation(k)
              /\ trace.terms[k] = ScaleColor(trace.surfaces[k], Attenuation(k))
        /\ (trace.pc = "returned" /\ trace.shaded) =>
              /\ trace.remainingDepth = 0
              /\ trace.calls = trace.depth0 + 1
        /\ (trace.pc = "call" /\ trace.calls >= 1) =>
              /\ trace.shaded
              /\ Len(trace.terms) = trace.calls
        /\ (trace.pc = "returned" /\ Len(trace.terms) >= 1
                /\ trace.materials[1].Reflectance = Rat(0)) =>
              trace.color = trace.terms[1]

\* A call that hit a material reflecting nothing, recursed all the same onto
\* a lit surface, and returned the first hit's direct term.
C18_Witness ==
    /\ trace.pc = "returned"
    /\ Len(trace.terms) >= 2
    /\ trace.materials[1].Reflectance = Rat(0)
    /\ trace.terms[1] # NoColor
    /\ trace.surfaces[2] # NoColor
    /\ IsFinite(trace.surfaces[2].Red)
    /\ trace.color = trace.terms[1]

\* Whether a light is in front of the probe's surface: normal . (lightPos - position) > 0.
FrontFacing(light) ==
    RGt(Dot(probe.normal, Subtract(light.Position, probe.position)), Rat(0))

\* The sum over the probe's lights, from the k-th on, of what each adds by
\* itself under the probe's model when there is no ambient light.
RECURSIVE LightTerms(_)
LightTerms(k) ==
    IF k > Len(probe.lights) THEN NoColor
    ELSE AddColor(Lighting(probe.model, <<probe.lights[k]>>, NoColor, probe.viewer,
                           probe.position, probe.normal, probe.material),
                  LightTerms(k + 1))

\* C19: PhongReflectance returns the terms of its lights plus ambientLight *
\* material.Ambient once, whatever the lights, and that product alone when no
\* light is given or in front; LambertianReflectance returns the terms of its
\* lights and nothing else, the zero colour when no light is given or in front.
C19_AmbientOnce ==
    (probe.op = "Lighting" /\ probe.done) =>
        /\ probe.model = "phong" =>
              /\ probe.result =
                    AddColor(LightTerms(1),
                             AmbientProduct(probe.ambientLight, probe.material))
              /\ (\A k \in DOMAIN probe.lights : ~FrontFacing(probe.lights[k])) =>
                    probe.result = AmbientProduct(probe.ambientLight, probe.material)
        /\ probe.model = "lambertian" =>
              /\ probe.result = LightTerms(1)
              /\ (\A k \in DOMAIN probe.lights : ~FrontFacing(probe.lights[k])) =>
                    probe.result = NoColor

\* A Phong call with two lights, one of them behind the surface, under a
\* coloured ambient light.
C19_Witness ==
    /\ probe.op = "Lighting"
    /\ probe.done
    /\ probe.model = "phong"
    /\ Len(probe.lights) = 2
    /\ FrontFacing(probe.lights[1])
    /\ ~FrontFacing(probe.lights[2])
    /\ probe.ambientLight # NoColor
    /\ probe.result # LightTerms(1)

\* ------------------------------------------------------------------------
\* Properties of the samples of a pixel
\* ------------------------------------------------------------------------

\* The closed form of the sample (i, j) of pixel (px, py):
\* screenX = 2(px + i/N)/width - 1, screenY = 1 - 2(py + j/N)/height.
SampleX(px, i) ==
    Norm(2 * (px * antiAliasingFactor + i) - imageWidth * antiAliasingFactor,
         imageWidth * antiAliasingFactor)

SampleY(py, j) ==
    Norm(imageHeight * antiAliasingFactor - 2 * (py * antiAliasingFactor + j),
         imageHeight * antiAliasingFactor)

\* The cell of pixel (px, py) on the screen: its left edge included, its
\* right edge not; its top edge included, its bottom edge not.
InCell(px, py, s) ==
    /\ RLe(Norm(2 * px - imageWidth, imageWidth), s.screenX)
    /\ RLt(s.screenX, Norm(2 * (px + 1) - imageWidth, imageWidth))
    /\ RLt(Norm(imageHeight - 2 * (py + 1), imageHeight), s.screenY)
    /\ RLe(s.screenY, Norm(imageHeight - 2 * py, imageHeight))

InScreen(s) ==
    /\ RLe(Rat(-1), s.screenX) /\ RLe(s.screenX, Rat(1))
    /\ RLe(Rat(-1), s.screenY) /\ RLe(s.screenY, Rat(1))

\* What the claim says of one dispatched pixel: N*N rays, each sample at its
\* closed form, in the screen and in the pixel's cell, and (-1, +1) first for
\* pixel (0, 0).
SamplesAsStated(worker) ==
    LET px == worker.pixelX
        py == worker.pixelY
        N == antiAliasingFactor
    IN /\ Len(worker.rays) = N * N
       /\ \A i, j \in 0 .. N - 1 :
             LET s == worker.rays[i * N + j + 1]
             IN /\ s.screenX = SampleX(px, i)
                /\ s.screenY = SampleY(py, j)
                /\ InScreen(s)
                /\ InCell(px, py, s)
       /\ (px = 0 /\ py = 0) =>
             worker.rays[1] = [screenX |-> Rat(-1), screenY |-> Rat(1)]

\* C20: with an anti-aliasing factor N >= 1, every pixel Render dispatches
\* carries exactly N*N rays; the sample (i, j) of pixel (px, py) has
\* screenX = 2(px + i/N)/width - 1 and screenY = 1 - 2(py + j/N)/height; every
\* sample lies in [-1, 1] x [-1, 1] and inside the cell of its own pixel; and
\* sample (0, 0) of pixel (0, 0) is (-1, +1).  Stated of every step: a step
\* that starts a worker hands it such rays, and no step changes the rays of
\* a worker already started.
C20_SamplesOfPixel ==
    [][/\ \A w \in 1 .. Len(workers) : workers'[w].rays = workers[w].rays
       /\ Len(workers') > Len(workers) => SamplesAsStated(workers'[Len(workers')])]_vars

\* A pixel other than the first, dispatched with four samples.
C20_Witness ==
    /\ antiAliasingFactor = 2
    /\ \E w \in 1 .. Len(workers) :
          /\ workers[w].pixelX = 1
          /\ Len(workers[w].rays) = 4
          /\ workers[w].rays[4].screenX # workers[w].rays[1].screenX
          /\ workers[w].rays[4].screenY # workers[w].rays[1].screenY

\* ------------------------------------------------------------------------
\* Properties of Sphere.Intersect
\* ------------------------------------------------------------------------

\* The ray's point at parameter t, relative to the sphere's centre.
FromCentre(s, r, t) == Subtract(Add(r.Position, Scale(r.Direction, t)), s.Center)

\* Whether the ray's point at t lies on the sphere: t is a root.
IsRoot(s, r, t) ==
    \E q \in {FromCentre(s, r, t)} : Dot(q, q) = RMul(s.Radius, s.Radius)

\* The smaller root: a root at which the squared distance to the centre is
\* not increasing in t (half its derivative is q . d).
IsSmallerRoot(s, r, t) ==
    \E q \in {FromCentre(s, r, t)} :
        Dot(q, q) = RMul(s.Radius, s.Radius) /\ RLe(Dot(q, r.Direction), Rat(0))

\* The line of the ray misses the sphere: its distance from the centre,
\* squared and scaled by |d|^2, exceeds (r |d|)^2.
LineMisses(s, r) ==
    \E dist \in {Subtract(r.Position, s.Center)}, d \in {r.Direction} :
        RLt(RMul(Dot(d, d), RMul(s.Radius, s.Radius)),
            Dot(Cross(dist, d), Cross(dist, d)))

StrictlyInside(s, r) ==
    \E dist \in {Subtract(r.Position, s.Center)} :
        RLt(Dot(dist, dist), RMul(s.Radius, s.Radius))

\* A ray of unit direction that starts outside the sphere and is aimed at
\* its centre, and its distance from the centre.
Distance(s, r) == Dot(Subtract(s.Center, r.Position), r.Direction)

AimedFromOutside(s, r) ==
    \E toCentre \in {Subtract(s.Center, r.Position)}, d \in {r.Direction} :
        /\ Dot(d, d) = Rat(1)
        /\ Cross(toCentre, d) = Vec(0, 0, 0)
        /\ RGt(Dot(toCentre, d), Rat(0))
        /\ RGt(Dot(toCentre, toCentre), RMul(s.Radius, s.Radius))

\* The parameters tried as roots: the multiples of 1/12 up to the diameter
\* of the grid and of the largest sphere.
RootCandidates == {Norm(n, 12) : n \in -12 * (2 * MaxCoord + 4) .. 12 * (2 * MaxCoord + 4)}

\* C21: Sphere.Intersect reports a miss when the discriminant is negative;
\* otherwise it looks at the smaller root only: it returns (true, t) exactly
\* when the smaller root t has 1e-4 < t < maxRange, and never the larger
\* root; for a ray of unit direction from outside aimed at the centre the
\* root it looks at is distance - r; and a ray whose origin is strictly
\* inside the sphere reports no hit.
C21_SphereSmallerRoot ==
    (probe.op = "Intersect" /\ probe.done /\ probe.obj.type = "sphere") =>
        LET s == probe.obj
            r == probe.r
            res == probe.result
        IN /\ LineMisses(s, r) => ~res.hit
           /\ res.hit => /\ IsSmallerRoot(s, r, res.t)
                          /\ RGt(res.t, Epsilon) /\ RLt(res.t, probe.maxRange)
           /\ (~res.hit /\ r.Direction # Vec(0, 0, 0)) =>
                 \A t \in RootCandidates :
                     ~(RGt(t, Epsilon) /\ RLt(t, probe.maxRange) /\ IsSmallerRoot(s, r, t))
           /\ AimedFromOutside(s, r) =>
                 \E t \in {RSub(Distance(s, r), RAbs(s.Radius))} :
                     res = IF RGt(t, Epsilon) /\ RLt(t, probe.maxRange)
                           THEN Result(TRUE, t)
                           ELSE Result(FALSE, probe.maxRange)
           /\ StrictlyInside(s, r) => ~res.hit

\* A unit ray from outside aimed at the centre of the off-origin sphere: both
\* roots are within range and the nearer one, distance - r, was returned.
C21_Witness ==
    /\ probe.op = "Intersect" /\ probe.done /\ probe.obj = Globe
    /\ AimedFromOutside(probe.obj, probe.r)
    /\ probe.maxRange = FarRange
    /\ probe.result.hit
    /\ probe.result.t = RSub(Distance(probe.obj, probe.r), Rat(2))
    /\ \E t \in RootCandidates :
          IsRoot(probe.obj, probe.r, t) /\ RLt(probe.result.t, t) /\ RLt(t, probe.maxRange)

\* ------------------------------------------------------------------------
\* Properties of the gate
\* ------------------------------------------------------------------------

\* Render called with a thread budget of 0 on an image that has a pixel.
Unbuffered == threads = 0 /\ ~output.isNil /\ imageWidth * imageHeight >= 1

\* Nothing gets past an unbuffered gate: Render has not returned, every
\* worker started stands at its send, the join counts them all, and no pixel
\* has been written.
NothingPastGate ==
    Unbuffered =>
        /\ renderPc \notin {"returnedNil", "returnedErr"}
        /\ \A i \in 1 .. Len(workers) : workers[i].pc = "gate"
        /\ wg = Len(workers)
        /\ sema = 0
        /\ \A p \in DOMAIN output.Pix : output.Pix[p] = 0

\* Render stands in wg.Wait() with one worker per pixel started.
StuckInJoin ==
    /\ renderPc = "wait"
    /\ Len(workers) = imageWidth * imageHeight
    /\ wg = imageWidth * imageHeight

\* C22: Render called with a thread budget of 0 and at least one pixel never
\* returns: every worker blocks at the gate for ever, no pixel is written,
\* and Render reaches its join and stays in it for ever.
C22_ZeroBudgetNeverReturns ==
    /\ []NothingPastGate
    /\ Unbuffered ~> []StuckInJoin

\* Render waits in its join for two workers, both blocked at the gate.
C22_Witness ==
    /\ Unbuffered
    /\ StuckInJoin
    /\ Len(workers) >= 2
    /\ \A i \in 1 .. Len(workers) : workers[i].pc = "gate"

\* The tokens in the semaphore are those of the workers between their send
\* and their receive, and none is left once Render has returned.
Balanced ==
    /\ sema = Cardinality(Holding)
    /\ renderPc \in {"returnedNil", "returnedErr"} => sema = 0

\* The workers that take the given step of renderRays in this transition.
Stepping(from, to) ==
    {i \in 1 .. Len(workers) : workers[i].pc = from /\ workers'[i].pc = to}

\* A worker moves only along send, write, receive, wg.Done, in this order;
\* a token goes in with each send and out with each receive and at no other
\* step; the pixel is written between the two, and wg.Done comes after the
\* receive.
InOrder ==
    /\ \A i \in 1 .. Len(workers) :
          \/ workers'[i].pc = workers[i].pc
          \/ <<workers[i].pc, workers'[i].pc>> \in
                {<<"gate", "trace">>, <<"trace", "release">>,
                 <<"release", "exit">>, <<"exit", "done">>}
    /\ \A i \in Len(workers) + 1 .. Len(workers') : workers'[i].pc = "gate"
    /\ sema' = sema + Cardinality(Stepping("gate", "trace"))
                     - Cardinality(Stepping("release", "exit"))
    /\ \A p \in DOMAIN output.Pix :
          output'.Pix[p] = output.Pix[p]
              + Cardinality({i \in Stepping("trace", "release") : TargetPixel(workers[i]) = p})
    /\ wg' = wg + (Len(workers') - Len(workers)) - Cardinality(Stepping("exit", "done"))

\* C23: every worker acquires the gate once before tracing and releases it
\* once after writing its pixel and before signalling the join; in every
\* reachable state the tokens in the semaphore are as many as the workers
\* between acquire and release, and none is left when Render returns.
C23_GateBalanced ==
    /\ []Balanced
    /\ [][InOrder]_vars

\* Two tokens are in the semaphore: one worker has written its pixel and not
\* yet released, the other is still tracing.
C23_Witness ==
    /\ sema = 2
    /\ \E i, j \in 1 .. Len(workers) :
          workers[i].pc = "release" /\ workers[j].pc = "trace"

====
